---- MODULE Spec2Model ----
(***************************************************************************)
(* The Observatory: benchmark runs driven through the Sanctum Gateway.     *)
(*                                                                         *)
(* The model covers the Gateway client (server/services/sanctum-gateway),  *)
(* the benchmark router and its background runner executeBenchmark         *)
(* (server/routes/benchmarks), and the benchmark tables of the store       *)
(* (server/storage).  An asynchronous handler is cut at its awaits: one    *)
(* action is the code that runs from the return of one awaited call to the *)
(* issue of the next one.  The effect of an awaited store call takes place *)
(* in the action that resumes after it.                                    *)
(***************************************************************************)
EXTENDS Integers, Sequences, FiniteSets, Bags, TLC

\* ------------------------------------------------------------------ bounds
MaxRuns == 2          \* runs the model creates
MaxN == 2             \* largest transactionCount the model starts a run with
MaxTotalTx == 2       \* sum of the transactionCounts of the runs started
MaxRequests == 2      \* HTTP requests the benchmark router handles
MaxGwCalls == 2       \* Gateway client calls logged by the client-level specification
MaxStatTx == 3        \* transactionCounts requested plus rows /submit-signed-tx stores, statistics specification
MaxStatTxRuns == 2    \* the same once the statistics specification holds more than one run
MaxCompletes == 1     \* /complete-run requests the statistics specification handles
MaxBenchTicks == 1    \* advances of the clock the benchmark router and the store read
MaxSummaries == 1     \* GET /benchmarks/summary requests the statistics specification handles
MaxLimited == 4       \* requests that reach the per-key rate limiter
MaxTicks == 2         \* advances of the clock the rate limiter reads
MaxRateLimit == 2     \* largest rateLimit of a key
MaxTraceN == 2        \* transactionCount of the run whose calls are traced
MaxHandled == 1       \* requests of the client-driven endpoints whose calls are traced
MaxChecks == 2        \* checkAlertRules invocations the alert monitor starts
MaxAlertTicks == 2    \* advances of the clock the alert monitor reads
MaxConfigs == 3       \* rows of the route_configurations table
MaxOptimizations == 2 \* AutoPilot.optimize invocations started
MaxActivations == 2   \* activateConfiguration calls started

\* ------------------------------------------------------- program constants
\* Date.now() - x for an x that is not a number (no length of a window is
\* negative).
NaN == -1
\* getTimeWindowMs: windows[timeWindow] || windows['24h'], the length of a
\* time window and that of '24h' for a name the object literal does not have.
\* The lookup of a name every object inherits yields a function or an object,
\* which is truthy and is returned: as a number it is NaN.  (The length of
\* '30d' is beyond the 32-bit integers of the checker; the checks use the
\* other windows.)
TimeWindowMs(timeWindow) ==
  CASE timeWindow = "1h" -> 60 * 60 * 1000
    [] timeWindow = "7d" -> 7 * 24 * 60 * 60 * 1000
    [] timeWindow = "30d" -> 30 * 24 * 60 * 60 * 1000
    [] timeWindow \in {"constructor", "toString", "toLocaleString", "valueOf",
                       "hasOwnProperty", "isPrototypeOf", "propertyIsEnumerable",
                       "__proto__", "__defineGetter__", "__defineSetter__",
                       "__lookupGetter__", "__lookupSetter__"} -> NaN
    [] OTHER -> 24 * 60 * 60 * 1000
MinTransactionCount == 1
MaxTransactionCount == 100
NumRpcEndpoints == 3

PlaceholderKey == "your_sanctum_gateway_api_key_here"
ApiKeys == {"", PlaceholderKey, "live-key"}

\* What the remote Gateway endpoint answers to one POST.
Responses == {"result", "no_result", "rpc_error", "http_error", "network_error"}

\* Math.random() > 0.05 in the mock responder.
MockDraws == {"success", "failed"}

\* What a call of the runner or of a handler can meet: in mock mode no request
\* is sent and no answer read; in live mode no random number is drawn.
Answers(mock) == IF mock THEN {"result"} ELSE Responses
Draws(mock) == IF mock THEN MockDraws ELSE {"success"}

VARIABLES
  apiKey,        \* SanctumGatewayService.apiKey
  useMockData,   \* SanctumGatewayService.useMockData
  runs,          \* table benchmark_runs: run id -> row
  attempts,      \* table benchmark_transactions: run id -> bag of rows
  events,        \* broadcast messages, per run id, in emission order
  runner,        \* executeBenchmark invocations: run id -> local state
  calls,         \* Gateway / RPC calls in flight, issued by the runners
  resp,          \* the last HTTP response of a start-run endpoint: [op, req (its number), hasCount, count, code]
  requests,      \* HTTP requests handled so far by the benchmark router
  completing,    \* /complete-run handlers between select and update: bag of
                 \* [run, successful, failed, completedAt]
  gwLog,         \* results returned by the Gateway client to direct callers
  benchNow,      \* Date.now() and now() of the store, in ms
  benchTicks     \* how often that clock has advanced

\* The data path of the benchmark statistics: one executeBenchmark invocation
\* seen through its accumulators, the rows it stores and the summaries computed.
VARIABLES
  acc,           \* executeBenchmark locals: runId, N, i, successCount, failedCount, latencies, costs
  txRows,        \* benchmark_transactions with latencyMs and feeSol: run -> rows
  summaries,     \* benchmark_runs with the values of the statistics: run -> row
  selected,      \* /complete-run handlers between select and update: [run, txs]
  completes,     \* /complete-run requests handled
  dashboard,     \* the last result of getBenchmarkAggregatedMetrics (totalBenchmarks -1: none yet)
  summarizing,   \* getBenchmarkAggregatedMetrics calls awaiting their select: the cutoffTime of each
  summaryCount   \* GET /benchmarks/summary requests handled

\* The per-API-key rate limiter in front of the protected public API routes.
VARIABLES
  limiters,      \* the Map of createApiKeyRateLimiter: key id -> [count, resetAt]
  clock,         \* Date.now(), in ms
  ticks,         \* how often the clock has advanced
  limited        \* the requests that reached the limiter: [key, at, code], in order

\* One executeBenchmark invocation and the client-driven endpoints, seen
\* through the calls they make.
VARIABLES
  tr,            \* executeBenchmark locals of the traced run (as in runner)
  endpoint,      \* workingEndpoint: index into RPC_ENDPOINTS, 0 while none
  trace,         \* the calls of the traced run, in order: [tx, op, arg, out]
  handled,       \* requests of /build-unsigned-tx and /submit-signed-tx handled
  handlerLog     \* the calls of the latest of these requests: [op, calls]

\* The alert monitor: its cooldown map and its checkAlertRules invocations.
VARIABLES
  lastAlertTime, \* AlertMonitor.lastAlertTime: rule key -> time of the last alert
  alertNow,      \* Date.now(), in ms
  alertTicks,    \* how often that clock has advanced
  checks,        \* checkAlertRules invocations: number -> [pc, rule]
  decided,       \* triggerAlert calls that passed the cooldown check: [key, at]
  alerts         \* rows of the alerts table: [key, createdAt], in insertion order; key is
                 \* the rule key, or the title of a row seed.ts inserts

\* The route configurations of the store and the AutoPilot singleton.
VARIABLES
  configs,          \* rows of route_configurations, in insertion order: [name, isActive]
  seeding,          \* inserts of the running seed script that have returned (0: none runs)
  activating,       \* activateConfiguration calls between their two updates: bag of ids
  activations,      \* activateConfiguration calls started
  isEnabled,        \* AutoPilot.isEnabled
  checkInterval,    \* AutoPilot.checkInterval holds a timer handle (not null)
  armed,            \* interval timers set and not cleared
  optimizing,       \* optimize invocations in flight, per await: [load, ai, create]
  optimizations,    \* optimize invocations started
  lastOptimization  \* AutoPilot.lastOptimization holds a date (not null)

benchVars == <<apiKey, useMockData, runs, attempts, events, runner, calls, resp, requests,
               completing, gwLog, benchNow, benchTicks>>
aggVars == <<acc, txRows, summaries, selected, completes, dashboard, summarizing, summaryCount>>
limiterVars == <<limiters, clock, ticks, limited>>
traceVars == <<tr, endpoint, trace, handled, handlerLog>>
alertVars == <<lastAlertTime, alertNow, alertTicks, checks, decided, alerts>>
pilotVars == <<configs, seeding, activating, activations, isEnabled, checkInterval, armed,
               optimizing, optimizations, lastOptimization>>
vars == <<benchVars, aggVars, limiterVars, traceVars, alertVars, pilotVars>>

RunIds == 1..MaxRuns
\* The run id of a request that names no run of the store.
UnknownRun == 0

\* ----------------------------------------------------------- Gateway client

\* constructor: mock mode iff no key or the placeholder key.
UseMockData(key) == key = "" \/ key = PlaceholderKey

Throw == [kind |-> "throw", mock |-> FALSE]

\* The live HTTP / JSON-RPC exchange of buildGatewayTransaction.
BuildLive(r) ==
  IF r = "result" THEN [kind |-> "return", mock |-> FALSE] ELSE Throw

\* buildGatewayTransaction(params): txOk is "transaction has at least 10 chars".
BuildGatewayTransaction(mock, txOk, r) ==
  IF mock THEN [kind |-> "return", mock |-> TRUE]
  ELSE IF ~txOk THEN Throw
  ELSE BuildLive(r)

\* The live HTTP / JSON-RPC exchange of sendTransaction; a response without
\* "result" is returned as status success with no signature.
SendLiveFallback(r) ==
  CASE r = "result" -> [kind |-> "return", mock |-> FALSE, status |-> "success", signature |-> TRUE]
    [] r = "no_result" -> [kind |-> "return", mock |-> FALSE, status |-> "success", signature |-> FALSE]
    [] OTHER -> [kind |-> "return", mock |-> TRUE, status |-> "success", signature |-> TRUE]
SendLive(r) ==
  CASE r = "result" -> [kind |-> "return", mock |-> FALSE, status |-> "success", signature |-> TRUE]
    [] r = "no_result" -> [kind |-> "return", mock |-> FALSE, status |-> "success", signature |-> FALSE]
    [] OTHER -> Throw

\* sendTransaction(params)
SendTransaction(mock, r, draw) ==
  IF mock THEN [kind |-> "return", mock |-> TRUE, status |-> draw, signature |-> TRUE]
  ELSE SendLive(r)

\* getTipInstructions(params)
GetTipInstructions(mock, r) ==
  IF mock THEN [kind |-> "return", mock |-> TRUE]
  ELSE IF r \in {"result", "no_result"} THEN [kind |-> "return", mock |-> FALSE]
  ELSE Throw

\* ------------------------------------------------------------------ store

Terminal == {"completed", "failed"}

StatsRunner == {"successRate", "avgLatency", "minLatency", "maxLatency",
                "avgCost", "totalCost", "jitoTipRefunded"}
StatsComplete == {"successRate", "avgLatency", "minLatency", "maxLatency",
                  "avgCost", "totalCost"}

\* createBenchmarkRun: the row inserted by /run and /init-run; the columns the
\* insert leaves out take their defaults (null statistics, null completedAt).
NewRun(total) ==
  [totalTransactions |-> total, successfulTransactions |-> 0,
   failedTransactions |-> 0, status |-> "running", stats |-> {}, completedAt |-> 0]

\* updateBenchmarkRun(id, updates): UPDATE ... SET updates WHERE id = id.
\* No row matches an id that was never created.
UpdateBenchmarkRunNoWhere(rs, id, upd) ==
  [x \in DOMAIN rs |->
     [f \in DOMAIN rs[x] |->
        IF f = "stats" /\ "stats" \in DOMAIN upd THEN rs[x].stats \cup upd.stats
        ELSE IF f \in DOMAIN upd THEN upd[f] ELSE rs[x][f]]]
UpdateBenchmarkRun(rs, id, upd) ==
  [x \in DOMAIN rs |->
     IF x # id THEN rs[x]
     ELSE [f \in DOMAIN rs[x] |->
             IF f = "stats" /\ "stats" \in DOMAIN upd THEN rs[x].stats \cup upd.stats
             ELSE IF f \in DOMAIN upd THEN upd[f] ELSE rs[x][f]]]

\* createBenchmarkTransaction(tx): the rows of a run are a bag (the table has
\* no order and the select states none).
CreateBenchmarkTransaction(txs, tx) == txs (+) SetToBag({tx})

\* getBenchmarkTransactions(runId)
GetBenchmarkTransactions(runId) == attempts[runId]

\* transactions.filter(t => t.status === st).length
CountStatus(txs, st) ==
  BagCardinality([t \in {u \in BagToSet(txs) : u.status = st} |-> txs[t]])
\* The rows written by the runner ("runner") or by /submit-signed-tx ("client").
CountBy(txs, src) ==
  BagCardinality([t \in {u \in BagToSet(txs) : u.by = src} |-> txs[t]])

\* ------------------------------------------------------------------ state

NoRunner ==
  [pc |-> "none", N |-> 0, i |-> 0, successCount |-> 0, failedCount |-> 0,
   probe |-> 0, workingConnection |-> FALSE, pending |-> "none", error |-> "",
   dbRaised |-> FALSE, completedAt |-> 0]

\* No invocation under way.
NoAcc == [run |-> 0, N |-> 0, i |-> 0, successCount |-> 0, failedCount |-> 0,
          latencies |-> <<>>, costs |-> <<>>]

\* new Map(): no rule key has alerted; no invocation started.  Date.now() at
\* the start of the process is far more than a cooldown after the epoch.
NoCheck == [pc |-> "idle", rule |-> 0]
StartTime == 1000000

Init ==
  /\ apiKey \in ApiKeys
  /\ useMockData = UseMockData(apiKey)
  /\ runs = [x \in {} |-> NewRun(0)]
  /\ attempts = [r \in RunIds |-> EmptyBag]
  /\ events = [r \in RunIds \cup {UnknownRun} |-> <<>>]
  /\ runner = [r \in RunIds |-> NoRunner]
  /\ calls = {}
  /\ resp = [op |-> "none", req |-> 0, hasCount |-> FALSE, count |-> 0, code |-> 0]
  /\ requests = 0
  /\ completing = EmptyBag
  /\ gwLog = <<>>
  /\ benchNow = StartTime
  /\ benchTicks = 0
  /\ acc = NoAcc
  /\ txRows = <<>>
  /\ summaries = <<>>
  /\ selected = <<>>
  /\ completes = 0
  /\ dashboard = [totalBenchmarks |-> -1]
  /\ summarizing = <<>>
  /\ summaryCount = 0
  /\ limiters = [k \in {} |-> [count |-> 0, resetAt |-> 0]]
  /\ clock = 0
  /\ ticks = 0
  /\ limited = <<>>
  /\ tr = NoRunner
  /\ endpoint = 0
  /\ trace = <<>>
  /\ handled = 0
  /\ handlerLog = [op |-> "none", calls |-> <<>>]
  /\ lastAlertTime = [k \in {} |-> 0]
  /\ alertNow = StartTime
  /\ alertTicks = 0
  /\ checks = [c \in 1..MaxChecks |-> NoCheck]
  /\ decided = <<>>
  /\ alerts = <<>>
  /\ configs = <<>>
  /\ seeding = 0
  /\ activating = EmptyBag
  /\ activations = 0
  /\ isEnabled = FALSE
  /\ checkInterval = FALSE
  /\ armed = 0
  /\ optimizing = [load |-> 0, ai |-> 0, create |-> 0]
  /\ optimizations = 0
  /\ lastOptimization = FALSE

Created == DOMAIN runs

\* INSERT ... RETURNING: the new row gets the next free id.
CreateBenchmarkRun(rs, row) ==
  [x \in 1..(Cardinality(DOMAIN rs) + 1) |-> IF x \in DOMAIN rs THEN rs[x] ELSE row]

\* new Date(), evaluated where the call that takes it as an argument is
\* issued.
NewDate == benchNow

StartedTotal ==
  LET RECURSIVE Sum(_)
      Sum(k) == IF k = 0 THEN 0 ELSE runs[k].totalTransactions + Sum(k - 1)
  IN Sum(Cardinality(DOMAIN runs))

\* ------------------------------------------------------------- start-run

\* transactionCount values a request carries.
CountInputs == {0, 101} \cup (1..MaxN)
\* fromPrivateKey / toAddress values a request carries.
KeyInputs == {"valid", "malformed", "empty"}

\* The model starts the runs it can afford: a count it would not itself ask
\* for (outside 1..MaxN) is left to the handler's own validation.
Affordable(total) ==
  /\ Cardinality(DOMAIN runs) < MaxRuns
  /\ total \in 1..MaxN => StartedTotal + total <= MaxTotalTx

\* runBenchmarkSchema: z.number().min(1).max(100), z.string().min(1)
RunSchemaOk(count, key, addr) ==
  /\ count >= MinTransactionCount /\ count <= MaxTransactionCount
  /\ key # "empty" /\ addr # "empty"

\* catch (error), the outer one: issue the update that marks the run failed,
\* with completedAt: new Date(); msg is error.message, broadcast once the
\* update has returned.
CatchFatalNoMessage(rn, msg) ==
  [rn EXCEPT !.pc = "fatal", !.error = "", !.pending = "none", !.completedAt = NewDate]
CatchFatal(rn, msg) ==
  [rn EXCEPT !.pc = "fatal", !.error = msg, !.pending = "none", !.completedAt = NewDate]

\* The part of executeBenchmark that runs inside the /run handler, up to its
\* first await: parse the key, parse the recipient, issue the first probe.
SetupStart(n, key, addr) ==
  IF key # "valid" THEN
    CatchFatal([NoRunner EXCEPT !.N = n], "Invalid private key format")
  ELSE IF addr # "valid" THEN
    CatchFatal([NoRunner EXCEPT !.N = n], "Invalid public key input")
  ELSE [NoRunner EXCEPT !.pc = "probe", !.N = n, !.probe = 1]

\* POST /run (a body that carries transactionCount): answer 400 when some
\* field fails the schema or the insert raises; otherwise create the run and
\* enter executeBenchmark.
StartRun ==
  /\ requests < MaxRequests
  /\ requests' = requests + 1
  /\ \E count \in CountInputs :
       LET Answer(code) == [op |-> "run", req |-> requests', hasCount |-> TRUE,
                            count |-> count, code |-> code]
       IN
       \/ /\ TRUE \in {~RunSchemaOk(count, key, addr) \/ ~dbOk :
                           key \in KeyInputs, addr \in KeyInputs, dbOk \in BOOLEAN}
          /\ resp' = Answer(400)
          /\ UNCHANGED <<aggVars, limiterVars, traceVars, alertVars, pilotVars, benchNow, benchTicks, apiKey, useMockData, completing, runs, attempts, events, runner, calls, gwLog>>
       \/ \E key \in KeyInputs, addr \in KeyInputs :
            LET id == Cardinality(DOMAIN runs) + 1 IN
            /\ RunSchemaOk(count, key, addr)
            /\ Affordable(count)
            /\ runs' = CreateBenchmarkRun(runs, NewRun(count))
            /\ events' = [events EXCEPT ![id] =
                            Append(@, [type |-> "benchmark_start", totalTransactions |-> count])]
            /\ runner' = [runner EXCEPT ![id] = SetupStart(count, key, addr)]
            /\ calls' = IF runner'[id].pc = "probe"
                        THEN calls \cup {[run |-> id, it |-> 0, op |-> "probe"]} ELSE calls
            /\ resp' = Answer(200)
            /\ UNCHANGED <<aggVars, limiterVars, traceVars, alertVars, pilotVars, benchNow, benchTicks, apiKey, useMockData, completing, attempts, gwLog>>

\* if (transactionCount < 1 || transactionCount > 100): both comparisons are
\* false for a body without the field.
InitRangeOkNoMin(hasCount, count) == ~hasCount \/ ~(count > MaxTransactionCount)
InitRangeOk(hasCount, count) ==
  ~hasCount \/ ~(count < MinTransactionCount \/ count > MaxTransactionCount)

\* POST /init-run; without the field the column takes its default, 0, and the
\* start event carries no count.
InitRun ==
  /\ requests < MaxRequests
  /\ \E hasCount \in BOOLEAN, count \in CountInputs, dbOk \in BOOLEAN :
    LET total == IF hasCount THEN count ELSE 0
        start == IF hasCount
                 THEN [type |-> "benchmark_start", totalTransactions |-> count]
                 ELSE [type |-> "benchmark_start"]
        id == Cardinality(DOMAIN runs) + 1
        Answer(code) == [op |-> "init-run", req |-> requests', hasCount |-> hasCount,
                         count |-> count, code |-> code]
    IN
    /\ hasCount \/ count = 0
    /\ requests' = requests + 1
    /\ IF ~InitRangeOk(hasCount, count) THEN
         /\ resp' = Answer(400)
         /\ UNCHANGED <<aggVars, limiterVars, traceVars, alertVars, pilotVars, benchNow, benchTicks, apiKey, useMockData, completing, runs, attempts, events, runner, calls, gwLog>>
       ELSE IF ~dbOk THEN
         /\ resp' = Answer(500)
         /\ UNCHANGED <<aggVars, limiterVars, traceVars, alertVars, pilotVars, benchNow, benchTicks, apiKey, useMockData, completing, runs, attempts, events, runner, calls, gwLog>>
       ELSE
         /\ Affordable(total)
         /\ runs' = CreateBenchmarkRun(runs, NewRun(total))
         /\ events' = [events EXCEPT ![id] = Append(@, start)]
         /\ resp' = Answer(200)
         /\ UNCHANGED <<aggVars, limiterVars, traceVars, alertVars, pilotVars, benchNow, benchTicks, apiKey, useMockData, completing, attempts, runner, calls, gwLog>>

\* ------------------------------------------------- executeBenchmark (runner)

Call(r, op) == [run |-> r, it |-> runner[r].i, op |-> op]

ProgressOffByOne(rn, completed) ==
  [type |-> "benchmark_progress", completed |-> completed - 1, total |-> rn.N,
   successCount |-> rn.successCount, failedCount |-> rn.failedCount]
Progress(rn, completed) ==
  [type |-> "benchmark_progress", completed |-> completed, total |-> rn.N,
   successCount |-> rn.successCount, failedCount |-> rn.failedCount]

\* for (let i = 0; i < config.transactionCount; i++): with i iterations done,
\* either enter the next one (up to its first await, getLatestBlockhash) or
\* leave the loop, compute the metrics and issue the final update, with
\* completedAt: new Date().
LoopHeadOffByOne(rn) ==
  IF rn.i + 1 < rn.N THEN [rn EXCEPT !.pc = "blockhash"]
  ELSE [rn EXCEPT !.pc = "final", !.completedAt = NewDate]
LoopHead(rn) ==
  IF rn.i < rn.N THEN [rn EXCEPT !.pc = "blockhash"]
  ELSE [rn EXCEPT !.pc = "final", !.completedAt = NewDate]

IssuedBy(r, rn) ==
  IF rn.pc = "blockhash" THEN {[run |-> r, it |-> rn.i, op |-> "getLatestBlockhash"]}
  ELSE {}

\* catch (txError): failedCount++ and issue the store write of a failed attempt.
CatchTxNoCount(rn) == [rn EXCEPT !.pc = "recordCatch", !.pending = "failed"]
CatchTx(rn) ==
  [rn EXCEPT !.failedCount = @ + 1, !.pc = "recordCatch", !.pending = "failed"]

\* catch (err) { continue } of the probing loop: try the next endpoint of
\* RPC_ENDPOINTS; after the last one, if (!workingConnection) throw.
AfterProbeFailedGivesUp(rn) ==
  CatchFatal([rn EXCEPT !.probe = 0], "All RPC endpoints are unavailable")
AfterProbeFailed(rn) ==
  IF rn.probe < NumRpcEndpoints THEN [rn EXCEPT !.probe = @ + 1]
  ELSE CatchFatal([rn EXCEPT !.probe = 0], "All RPC endpoints are unavailable")

\* One probe of RPC_ENDPOINTS returns or raises.
Probe(r) ==
  /\ runner[r].pc = "probe"
  /\ \E ok \in BOOLEAN :
       LET rn == runner[r]
           nx == IF ok THEN LoopHead([rn EXCEPT !.workingConnection = TRUE, !.probe = 0])
                 ELSE AfterProbeFailed(rn)
       IN /\ runner' = [runner EXCEPT ![r] = nx]
          /\ calls' = (calls \ {Call(r, "probe")})
                        \cup (IF nx.pc = "probe" THEN {Call(r, "probe")} ELSE IssuedBy(r, nx))
  /\ UNCHANGED <<aggVars, limiterVars, traceVars, alertVars, pilotVars, benchNow, benchTicks, apiKey, useMockData, completing, runs, attempts, events, resp, requests, gwLog>>

\* connection.getLatestBlockhash() of the iteration returns or raises.
Blockhash(r) ==
  /\ runner[r].pc = "blockhash"
  /\ \E ok \in BOOLEAN :
       /\ runner' = [runner EXCEPT ![r] =
                       IF ok THEN [@ EXCEPT !.pc = "optimize"] ELSE CatchTx(@)]
       /\ calls' = (calls \ {Call(r, "getLatestBlockhash")})
                     \cup (IF ok THEN {Call(r, "buildGatewayTransaction")} ELSE {})
  /\ UNCHANGED <<aggVars, limiterVars, traceVars, alertVars, pilotVars, benchNow, benchTicks, apiKey, useMockData, completing, runs, attempts, events, resp, requests, gwLog>>

\* buildGatewayTransaction returns or raises; then decode, sign, serialize
\* (signOk) and issue sendTransaction.
Optimize(r) ==
  /\ runner[r].pc = "optimize"
  /\ \E rsp \in Answers(useMockData), signOk \in BOOLEAN :
       LET res == BuildGatewayTransaction(useMockData, TRUE, rsp)
           go == res.kind = "return" /\ signOk
       IN /\ runner' = [runner EXCEPT ![r] =
                          IF go THEN [@ EXCEPT !.pc = "submit"] ELSE CatchTx(@)]
          /\ calls' = (calls \ {Call(r, "buildGatewayTransaction")})
                        \cup (IF go THEN {Call(r, "sendTransaction")} ELSE {})
  /\ UNCHANGED <<aggVars, limiterVars, traceVars, alertVars, pilotVars, benchNow, benchTicks, apiKey, useMockData, completing, runs, attempts, events, resp, requests, gwLog>>

\* if (result.status === 'success' && result.signature)
IsSuccess(res) == res.status = "success" /\ res.signature

\* The code that runs when sendTransaction returns or raises: count the
\* outcome and issue (and await) the store write of the attempt.
OnSendReturnNoAwait(rn, res) ==
  IF res.kind = "throw" THEN CatchTx(rn)
  ELSE IF IsSuccess(res)
  THEN [rn EXCEPT !.successCount = @ + 1, !.pc = "delay"]
  ELSE [rn EXCEPT !.failedCount = @ + 1, !.pc = "delay"]
OnSendReturn(rn, res) ==
  IF res.kind = "throw" THEN CatchTx(rn)
  ELSE IF IsSuccess(res)
  THEN [rn EXCEPT !.successCount = @ + 1, !.pc = "record", !.pending = "success"]
  ELSE [rn EXCEPT !.failedCount = @ + 1, !.pc = "record", !.pending = "failed"]

Submit(r) ==
  /\ runner[r].pc = "submit"
  /\ \E rsp \in Answers(useMockData), draw \in Draws(useMockData) :
       runner' = [runner EXCEPT ![r] =
                    OnSendReturn(@, SendTransaction(useMockData, rsp, draw))]
  /\ calls' = calls \ {Call(r, "sendTransaction")}
  /\ UNCHANGED <<aggVars, limiterVars, traceVars, alertVars, pilotVars, benchNow, benchTicks, apiKey, useMockData, completing, runs, attempts, events, resp, requests, gwLog>>

\* createBenchmarkTransaction of the try block returns (the attempt is stored,
\* progress is broadcast, the delay starts) or raises (into catch (txError)).
Record(r) ==
  /\ runner[r].pc = "record"
  /\ \E dbOk \in BOOLEAN :
       LET rn == runner[r] IN
       IF dbOk THEN
         /\ attempts' = [attempts EXCEPT ![r] =
                           CreateBenchmarkTransaction(@, [status |-> rn.pending, by |-> "runner"])]
         /\ events' = [events EXCEPT ![r] = Append(@, Progress(rn, rn.i + 1))]
         /\ runner' = [runner EXCEPT ![r] = [rn EXCEPT !.pc = "delay", !.pending = "none"]]
       ELSE
         /\ runner' = [runner EXCEPT ![r] = CatchTx([rn EXCEPT !.dbRaised = TRUE])]
         /\ UNCHANGED <<attempts, events>>
  /\ UNCHANGED <<aggVars, limiterVars, traceVars, alertVars, pilotVars, benchNow, benchTicks, apiKey, useMockData, completing, runs, calls, resp, requests, gwLog>>

\* setTimeout(resolve, 1000) fires: i++ and back to the loop head.
Delay(r) ==
  /\ runner[r].pc = "delay"
  /\ LET nx == LoopHead([runner[r] EXCEPT !.i = @ + 1]) IN
       /\ runner' = [runner EXCEPT ![r] = nx]
       /\ calls' = calls \cup IssuedBy(r, nx)
  /\ UNCHANGED <<aggVars, limiterVars, traceVars, alertVars, pilotVars, benchNow, benchTicks, apiKey, useMockData, completing, runs, attempts, events, resp, requests, gwLog>>

\* createBenchmarkTransaction of catch (txError) returns (the failed attempt is
\* stored, progress is broadcast, i++) or raises (into the outer catch).
RecordCatch(r) ==
  /\ runner[r].pc = "recordCatch"
  /\ \E dbOk \in BOOLEAN :
       LET rn == runner[r]
           nx == LoopHead([rn EXCEPT !.i = @ + 1, !.pending = "none"])
       IN
       IF dbOk THEN
         /\ attempts' = [attempts EXCEPT ![r] =
                           CreateBenchmarkTransaction(@, [status |-> "failed", by |-> "runner"])]
         /\ events' = [events EXCEPT ![r] = Append(@, Progress(rn, rn.i + 1))]
         /\ runner' = [runner EXCEPT ![r] = nx]
         /\ calls' = calls \cup IssuedBy(r, nx)
       ELSE
         /\ runner' = [runner EXCEPT ![r] =
                         CatchFatal([rn EXCEPT !.dbRaised = TRUE], "store error")]
         /\ UNCHANGED <<attempts, events, calls>>
  /\ UNCHANGED <<aggVars, limiterVars, traceVars, alertVars, pilotVars, benchNow, benchTicks, apiKey, useMockData, completing, runs, resp, requests, gwLog>>

\* The final updateBenchmarkRun returns (benchmark_complete is broadcast) or
\* raises (into the outer catch).
FinalUpdate(rn, now) ==
  [successfulTransactions |-> rn.successCount, failedTransactions |-> rn.failedCount,
   stats |-> StatsRunner, status |-> "completed", completedAt |-> now]

Final(r) ==
  /\ runner[r].pc = "final"
  /\ \E dbOk \in BOOLEAN :
       LET rn == runner[r] IN
       IF dbOk THEN
         /\ runs' = UpdateBenchmarkRun(runs, r, FinalUpdate(rn, rn.completedAt))
         /\ events' = [events EXCEPT ![r] =
                         Append(@, [type |-> "benchmark_complete",
                                    successCount |-> rn.successCount,
                                    failedCount |-> rn.failedCount])]
         /\ runner' = [runner EXCEPT ![r] = [rn EXCEPT !.pc = "done"]]
       ELSE
         /\ runner' = [runner EXCEPT ![r] =
                         CatchFatal([rn EXCEPT !.dbRaised = TRUE], "store error")]
         /\ UNCHANGED <<runs, events>>
  /\ UNCHANGED <<aggVars, limiterVars, traceVars, alertVars, pilotVars, benchNow, benchTicks, apiKey, useMockData, completing, attempts, calls, resp, requests, gwLog>>

\* The update of the outer catch returns (benchmark_error is broadcast) or
\* raises (executeBenchmark rejects; the caller's .catch logs it).

Fatal(r) ==
  /\ runner[r].pc = "fatal"
  /\ \E dbOk \in BOOLEAN :
       LET rn == runner[r] IN
       IF dbOk THEN
         /\ runs' = UpdateBenchmarkRun(runs, r, [status |-> "failed", completedAt |-> rn.completedAt])
         /\ events' = [events EXCEPT ![r] =
                         Append(@, [type |-> "benchmark_error", error |-> rn.error])]
         /\ runner' = [runner EXCEPT ![r] = [rn EXCEPT !.pc = "done"]]
       ELSE
         /\ runner' = [runner EXCEPT ![r] = [rn EXCEPT !.pc = "rejected", !.dbRaised = TRUE]]
         /\ UNCHANGED <<runs, events>>
  /\ UNCHANGED <<aggVars, limiterVars, traceVars, alertVars, pilotVars, benchNow, benchTicks, apiKey, useMockData, completing, attempts, calls, resp, requests, gwLog>>

\* Time passes between two steps of the handlers: more than the shortest time
\* window of the store.
BenchTick ==
  /\ benchTicks < MaxBenchTicks
  /\ benchNow' = benchNow + TimeWindowMs("1h") + 1
  /\ benchTicks' = benchTicks + 1
  /\ UNCHANGED <<aggVars, limiterVars, traceVars, alertVars, pilotVars, apiKey, useMockData,
                 runs, attempts, events, runner, calls, resp, requests, completing, gwLog>>

RunnerStep(r) ==
  \/ Probe(r) \/ Blockhash(r) \/ Optimize(r) \/ Submit(r) \/ Record(r)
  \/ Delay(r) \/ RecordCatch(r) \/ Final(r) \/ Fatal(r)

\* ------------------------------------------------------ client-driven runs

\* The attempt /submit-signed-tx stores after sendTransaction returned.
ClientAttempt(res) == [status |-> "success", by |-> "client"]

\* POST /submit-signed-tx: without a signed transaction answer 400; otherwise
\* send, then, with a runId, store the attempt; on any exception (of the send
\* or of that store write, db = "first_raises") try to store a failed attempt
\* (that write raises too when db = "raises").  The insert of an attempt for a
\* run id that does not exist violates the foreign key and raises.
SubmitSignedTx ==
  /\ requests < MaxRequests
  /\ requests' = requests + 1
  /\ \E hasTx \in BOOLEAN, hasRun \in BOOLEAN :
       IF ~hasTx \/ ~hasRun THEN attempts' = attempts
       ELSE \E r \in RunIds :
              IF r \notin Created THEN attempts' = attempts
              ELSE \E stored \in
                       {LET res == SendTransaction(useMockData, rsp, draw) IN
                        IF res.kind = "return" /\ db = "ok"
                        THEN SetToBag({ClientAttempt(res)})
                        ELSE IF db # "raises"
                        THEN SetToBag({[status |-> "failed", by |-> "client"]})
                        ELSE EmptyBag :
                          rsp \in Answers(useMockData), draw \in Draws(useMockData),
                          db \in {"ok", "first_raises", "raises"}} :
                     attempts' = [attempts EXCEPT ![r] = @ (+) stored]
  /\ UNCHANGED <<aggVars, limiterVars, traceVars, alertVars, pilotVars, benchNow, benchTicks, apiKey, useMockData, completing, runs, events, runner, calls, resp, gwLog>>

\* The update /complete-run computes from the counts of the attempts selected.
CompleteUpdate(successful, failed, now) ==
  [successfulTransactions |-> successful, failedTransactions |-> failed,
   stats |-> StatsComplete, status |-> "completed", completedAt |-> now]

\* POST /complete-run/:runId up to its second await: getBenchmarkTransactions
\* returns the attempts of the run (none for an id that names no run), the
\* handler counts them and issues the update with completedAt: new Date(), or
\* the select raises (answer 500).
CompleteRunSelect ==
  /\ requests < MaxRequests
  /\ requests' = requests + 1
  /\ \E r \in Created \cup {UnknownRun}, dbOk \in BOOLEAN :
       LET txs == IF r \in Created THEN GetBenchmarkTransactions(r) ELSE EmptyBag IN
       completing' =
         IF dbOk
         THEN completing (+) SetToBag({[run |-> r,
                                        successful |-> CountStatus(txs, "success"),
                                        failed |-> CountStatus(txs, "failed"),
                                        completedAt |-> NewDate]})
         ELSE completing
  /\ UNCHANGED <<aggVars, limiterVars, traceVars, alertVars, pilotVars, benchNow, benchTicks, apiKey, useMockData, runs, attempts, events, runner, calls, resp, gwLog>>

\* POST /complete-run/:runId after the select: updateBenchmarkRun stores the
\* counts (no row matches an unknown id) and benchmark_complete is broadcast
\* for the id of the request, or the update raises (answer 500).
CompleteRun ==
  /\ \E c \in BagToSet(completing), dbOk \in BOOLEAN :
       /\ completing' = completing (-) SetToBag({c})
       /\ IF dbOk THEN
            /\ runs' = IF c.run \in Created
                       THEN UpdateBenchmarkRun(runs, c.run,
                                               CompleteUpdate(c.successful, c.failed, c.completedAt))
                       ELSE runs
            /\ events' = [events EXCEPT ![c.run] =
                            Append(@, [type |-> "benchmark_complete",
                                       successful |-> c.successful, failed |-> c.failed])]
          ELSE UNCHANGED <<runs, events>>
  /\ UNCHANGED <<aggVars, limiterVars, traceVars, alertVars, pilotVars, benchNow, benchTicks, apiKey, useMockData, attempts, runner, calls, resp, requests, gwLog>>

\* ------------------------------------------- Gateway client, called directly

Logged(op, rsp, res) == [op |-> op, rsp |-> rsp, res |-> res]

\* A caller (the runner, /build-unsigned-tx) awaits buildGatewayTransaction.
GwBuild ==
  \E rsp \in Responses, txOk \in BOOLEAN :
    /\ Len(gwLog) < MaxGwCalls
    /\ gwLog' = Append(gwLog, Logged("buildGatewayTransaction", rsp,
                                     BuildGatewayTransaction(useMockData, txOk, rsp)))
    /\ UNCHANGED <<aggVars, limiterVars, traceVars, alertVars, pilotVars, benchNow, benchTicks, apiKey, useMockData, completing, runs, attempts, events, runner, calls, resp, requests>>

\* A caller (the runner, /submit-signed-tx, /gateway/send-transaction) awaits
\* sendTransaction.
GwSend ==
  \E rsp \in Responses, draw \in MockDraws :
    /\ Len(gwLog) < MaxGwCalls
    /\ gwLog' = Append(gwLog, Logged("sendTransaction", rsp,
                                     SendTransaction(useMockData, rsp, draw)))
    /\ UNCHANGED <<aggVars, limiterVars, traceVars, alertVars, pilotVars, benchNow, benchTicks, apiKey, useMockData, completing, runs, attempts, events, runner, calls, resp, requests>>

\* A caller (/gateway/tip-instructions) awaits getTipInstructions.
GwTips ==
  \E rsp \in Responses :
    /\ Len(gwLog) < MaxGwCalls
    /\ gwLog' = Append(gwLog, Logged("getTipInstructions", rsp,
                                     GetTipInstructions(useMockData, rsp)))
    /\ UNCHANGED <<aggVars, limiterVars, traceVars, alertVars, pilotVars, benchNow, benchTicks, apiKey, useMockData, completing, runs, attempts, events, runner, calls, resp, requests>>

\* ------------------------------------------------------------- statistics
\* The same handlers, restricted to the values they compute.  Latencies are in
\* ms; the fees and costs of the columns are in 1e-9 SOL (the scale of the
\* decimal columns); result.cost, a double, is in 1e-10 SOL; stored rates and
\* latencies are in hundredths (scale 2).

\* Date.now() - startTime of an attempt.
LatencyInputs == {10, 25}
\* result.cost: getMockCost in mock mode (Math.random() * 0.002 + 0.0005, a
\* double between the steps of the fee column; here 0.0006000004 SOL), 0 in
\* live mode.
MockCosts == {6000004}
\* A column left out of the insert.
Null == -1

RECURSIVE SumSeq(_)
SumSeq(q) == IF q = <<>> THEN 0 ELSE Head(q) + SumSeq(Tail(q))
MinSeq(q) == CHOOSE x \in {q[k] : k \in DOMAIN q} : \A k \in DOMAIN q : x <= q[k]
MaxSeq(q) == CHOOSE x \in {q[k] : k \in DOMAIN q} : \A k \in DOMAIN q : x >= q[k]

\* Number.prototype.toFixed(d) of the double the code computes from the
\* numbers q[1], ..., q[Len(q)], each an integer number of 10^-k units:
\*   (q.reduce((a, b) => a + b, 0) / n * c).toFixed(d)
\* as the integer number of 10^-d units (n, c < 2^15; every value < 2^30).
\* toFixed picks the integer nearest to the exact value of the double times
\* 10^d, the larger of two.  Every operation of the code rounds to the nearest
\* double, which moves the value by less than 2^-45 of itself over all of
\* them, so the result is the exact quotient rounded (up) unless that quotient
\* is a decimal tie; then the double itself is computed.  A double is held
\* exactly as L limbs of 15 bits, F of them after the binary point, least limb
\* first; a quotient carries the flag s of a remainder left over.
ToFixed(q, k, n, c, d) ==
  LET B == 32768
      F == 7
      L == 10
      \* Op(x), with x evaluated first
      Then(x, Op(_)) == CHOOSE y \in {Op(v) : v \in {x}} : TRUE
      Zero == <<0, 0, 0, 0, 0, 0, 0, 0, 0, 0>>
      Unit(j) == [i \in 1..L |-> IF i = j \div 15 + 1 THEN 2^(j % 15) ELSE 0] \o <<>>
      FromInt(v) == [i \in 1..L |-> IF i = F + 1 THEN v % B
                                    ELSE IF i = F + 2 THEN v \div B ELSE 0] \o <<>>
      \* X * m + Y from limb i on, with the carry into that limb
      RECURSIVE MulAdd(_, _, _, _, _)
      MulAdd(X, m, Y, i, carry) ==
        IF i > L THEN <<>>
        ELSE <<(X[i] * m + Y[i] + carry) % B>>
               \o MulAdd(X, m, Y, i + 1, (X[i] * m + Y[i] + carry) \div B)
      Times(X, m) == MulAdd(X, m, Zero, 1, 0)
      Plus(X, Y) == MulAdd(X, 1, Y, 1, 0)
      \* X.l / m from limb i down, with the remainder r of the limbs above
      RECURSIVE Div(_, _, _, _)
      Div(X, m, i, r) ==
        IF i = 0 THEN [l |-> <<>>, s |-> X.s \/ r # 0]
        ELSE LET rest == Div(X, m, i - 1, (r * B + X.l[i]) % m)
             IN [l |-> rest.l \o <<(r * B + X.l[i]) \div m>>, s |-> rest.s]
      Over(X, m) == Div(X, m, L, 0)
      \* the nearest double, ties to the even one
      Round(X) ==
        IF \A i \in 1..L : X.l[i] = 0 THEN Zero
        ELSE LET h == CHOOSE i \in 1..L : X.l[i] # 0 /\ \A j \in (i + 1)..L : X.l[j] = 0
                 e == CHOOSE b \in 0..14 : 2^b <= X.l[h] /\ X.l[h] < 2^(b + 1)
                 cut == 15 * (h - 1) + e - 52
                 Bit(j) == (X.l[j \div 15 + 1] \div 2^(j % 15)) % 2
                 jc == cut \div 15 + 1
                 low == \/ X.s
                        \/ \E i \in 1..((cut - 1) \div 15) : X.l[i] # 0
                        \/ X.l[(cut - 1) \div 15 + 1] % 2^((cut - 1) % 15) # 0
                 kept == [i \in 1..L |-> IF i < jc THEN 0
                                         ELSE IF i = jc THEN X.l[i] - (X.l[i] % 2^(cut % 15))
                                         ELSE X.l[i]] \o <<>>
             IN IF cut <= 0 THEN X.l
                ELSE IF Bit(cut - 1) = 1 /\ (low \/ Bit(cut) = 1)
                THEN Plus(kept, Unit(cut)) ELSE kept
      Exact(X) == [l |-> X, s |-> FALSE]
      \* the double nearest to v / 10^k
      RECURSIVE Tenth(_, _)
      Tenth(X, j) == IF j = 0 THEN X
                     ELSE IF j >= 4 THEN Then(Over(X, 10000), LAMBDA Y : Tenth(Y, j - 4))
                     ELSE Over(X, 10^j)
      Dec(v) == IF k = 0 THEN FromInt(v) ELSE Then(Tenth(Exact(FromInt(v)), k), Round)
      \* the running sum after q[lo..hi], from the sum a before them
      RECURSIVE Sum(_, _, _)
      Sum(a, lo, hi) ==
        IF lo > hi THEN a
        ELSE IF lo = hi
        THEN IF q[lo] = 0 THEN a
             ELSE Then(Dec(q[lo]), LAMBDA t : Then(Plus(a, t), LAMBDA u : Round(Exact(u))))
        ELSE Then(Sum(a, lo, (lo + hi) \div 2), LAMBDA b : Sum(b, (lo + hi) \div 2 + 1, hi))
      RECURSIVE Tens(_, _)
      Tens(X, j) == IF j = 0 THEN X
                    ELSE IF j >= 4 THEN Then(Times(X, 10000), LAMBDA Y : Tens(Y, j - 4))
                    ELSE Times(X, 10^j)
      \* the integer nearest to X * 10^d, the larger of two
      Nearest(X) ==
        Then(Tens(X, d), LAMBDA Y :
          Then(Plus(Y, Unit(15 * F - 1)), LAMBDA Z : Z[F + 1] + B * Z[F + 2] + B * B * Z[F + 3]))
      double ==
        Then(Sum(Zero, 1, Len(q)), LAMBDA sum :
          Then(IF n = 1 THEN sum ELSE Then(Over(Exact(sum), n), Round), LAMBDA mean :
            IF c = 1 THEN mean ELSE Then(Times(mean, c), LAMBDA prod : Round(Exact(prod)))))
      RECURSIVE Total(_, _)
      Total(lo, hi) == IF lo > hi THEN 0 ELSE IF lo = hi THEN q[lo]
                       ELSE Total(lo, (lo + hi) \div 2) + Total((lo + hi) \div 2 + 1, hi)
      num == 2 * c * Total(1, Len(q)) * (IF d > k THEN 10^(d - k) ELSE 1)
      den == n * (IF k > d THEN 10^(k - d) ELSE 1)
  IN IF (num + den) % (2 * den) = 0 THEN Then(double, Nearest) ELSE (num + den) \div (2 * den)

\* createBenchmarkRun of /run and /init-run, with the statistics columns.
NewRunStats(n) ==
  [totalTransactions |-> n, successfulTransactions |-> 0, failedTransactions |-> 0,
   successRate |-> Null, avgLatency |-> Null, minLatency |-> Null, maxLatency |-> Null,
   avgCost |-> Null, totalCost |-> Null, status |-> "running", by |-> "none",
   createdAt |-> benchNow]

\* updateBenchmarkRun(id, upd) on these rows; no row matches an unknown id.
UpdateStats(rs, id, upd) ==
  [k \in DOMAIN rs |->
     IF k # id THEN rs[k]
     ELSE [f \in DOMAIN rs[k] |-> IF f \in DOMAIN upd THEN upd[f] ELSE rs[k][f]]]

\* Calculate final metrics + the final updateBenchmarkRun of executeBenchmark.
RunnerSummary(a) ==
  [successfulTransactions |-> a.successCount,
   failedTransactions |-> a.failedCount,
   successRate |-> ToFixed(<<a.successCount>>, 0, a.N, 100, 2),
   avgLatency |-> IF Len(a.latencies) > 0
                  THEN ToFixed(a.latencies, 0, Len(a.latencies), 1, 2) ELSE 0,
   minLatency |-> IF Len(a.latencies) > 0 THEN 100 * MinSeq(a.latencies) ELSE 0,
   maxLatency |-> IF Len(a.latencies) > 0 THEN 100 * MaxSeq(a.latencies) ELSE 0,
   avgCost |-> IF Len(a.costs) > 0
               THEN ToFixed(a.costs, 10, Len(a.costs), 1, 9) ELSE 0,
   totalCost |-> ToFixed(a.costs, 10, 1, 1, 9),
   status |-> "completed",
   by |-> "runner"]

\* The statistics /complete-run computes from the rows of the run.
CompleteSummary(txs) ==
  LET IsOk(t) == t.status = "success"
      IsKo(t) == t.status = "failed"
      HasLatency(t) == t.latencyMs # Null /\ t.latencyMs # 0
      lat == [k \in DOMAIN SelectSeq(txs, HasLatency) |-> SelectSeq(txs, HasLatency)[k].latencyMs]
      cst == [k \in DOMAIN txs |-> IF txs[k].feeSol = Null THEN 0 ELSE txs[k].feeSol]
      ok == Len(SelectSeq(txs, IsOk))
  IN [successfulTransactions |-> ok,
      failedTransactions |-> Len(SelectSeq(txs, IsKo)),
      successRate |-> IF Len(txs) > 0 THEN ToFixed(<<ok>>, 0, Len(txs), 100, 2) ELSE 0,
      avgLatency |-> IF Len(lat) > 0 THEN ToFixed(lat, 0, Len(lat), 1, 2) ELSE 0,
      minLatency |-> IF Len(lat) > 0 THEN 100 * MinSeq(lat) ELSE 0,
      maxLatency |-> IF Len(lat) > 0 THEN 100 * MaxSeq(lat) ELSE 0,
      avgCost |-> IF Len(cst) > 0 THEN 1000 * ToFixed(cst, 9, Len(cst), 1, 6) ELSE 0,
      totalCost |-> 1000 * ToFixed(cst, 9, 1, 1, 6),
      status |-> "completed",
      by |-> "complete-run"]

\* getBenchmarkAggregatedMetrics over the runs rs it has selected: success
\* rate in tenths, latency in ms.
AggregatedMetrics(rs) ==
  LET Tot(k) == rs[k].totalTransactions
      Ok(k) == rs[k].successfulTransactions
      Lat(k) == rs[k].avgLatency
      Avg(k) == rs[k].avgCost
      Sum(k) == rs[k].totalCost
      totalTransactions == SumSeq([k \in DOMAIN rs |-> Tot(k)])
      totalSuccessful == SumSeq([k \in DOMAIN rs |-> Ok(k)])
  IN IF Len(rs) = 0
     THEN [totalBenchmarks |-> 0, totalTransactions |-> 0, avgSuccessRate |-> 0,
           avgLatency |-> 0, avgCost |-> 0, totalCost |-> 0]
     ELSE [totalBenchmarks |-> Len(rs),
           totalTransactions |-> totalTransactions,
           avgSuccessRate |-> IF totalTransactions > 0
                              THEN ToFixed(<<totalSuccessful>>, 0, totalTransactions, 100, 1)
                              ELSE 0,
           avgLatency |-> ToFixed([k \in DOMAIN rs |-> Lat(k)], 2, Len(rs), 1, 0),
           avgCost |-> ToFixed([k \in DOMAIN rs |-> Avg(k)], 9, Len(rs), 1, 9),
           totalCost |-> ToFixed([k \in DOMAIN rs |-> Sum(k)], 9, 1, 1, 9)]

\* The runs getBenchmarkAggregatedMetrics selects: status completed and
\* createdAt >= cutoffTime.
CompletedRuns(cutoffTime) ==
  SelectSeq(summaries, LAMBDA r : r.status = "completed" /\ r.createdAt >= cutoffTime)

\* req.query.timeWindow of GET /benchmarks/summary ('24h' when it is missing).
TimeWindows == {"1h", "24h", "constructor"}

\* The fee /submit-signed-tx stores, "0.000005".
ClientFee == 5000
\* The transactionCounts requested so far plus the rows /submit-signed-tx has
\* stored (feeSol "0.000005", or failed with "0").
Requested ==
  SumSeq([k \in DOMAIN summaries |->
            summaries[k].totalTransactions
              + Len(SelectSeq(txRows[k], LAMBDA t : t.feeSol = ClientFee
                                                    \/ (t.status = "failed" /\ t.feeSol = 0)))])

\* POST /run with transactionCount n: the run is created and executeBenchmark
\* is entered.
BeginLoop ==
  /\ acc.N = 0
  /\ Len(txRows) < MaxRuns
  /\ \E n \in 1..MaxStatTx :
       /\ Requested + n <= (IF Len(txRows) = 0 THEN MaxStatTx ELSE MaxStatTxRuns)
       /\ acc' = [NoAcc EXCEPT !.N = n, !.run = Len(txRows) + 1]
       /\ summaries' = Append(summaries, NewRunStats(n))
  /\ txRows' = Append(txRows, <<>>)
  /\ UNCHANGED <<benchVars, limiterVars, traceVars, alertVars, pilotVars, selected, completes, dashboard, summarizing, summaryCount>>

\* One iteration of the loop: the attempt succeeds, sendTransaction returns
\* another status, or a call raises before that (catch (txError)).
AttemptSuccess(a, latency, cost) ==
  [a EXCEPT !.i = @ + 1, !.successCount = @ + 1,
            !.latencies = Append(@, latency),
            !.costs = IF cost # 0 THEN Append(@, cost) ELSE @]
AttemptFailed(a, latency) ==
  [a EXCEPT !.i = @ + 1, !.failedCount = @ + 1, !.latencies = Append(@, latency)]
AttemptRaised(a, latency) ==
  [a EXCEPT !.i = @ + 1, !.failedCount = @ + 1]

\* One iteration whose last store write returns: the row of the try block, or
\* the failed row of catch (txError), whose latencyMs is a second reading of
\* Date.now() - startTime (at, not before the first).  When the store write of
\* the try block raises the attempt has been counted already and catch
\* (txError) counts a failure for the same iteration.  feeSol holds
\* result.cost.toString() rounded to the scale of the column, decimal(20, 9).
Iterate ==
  /\ acc.N > 0 /\ acc.i < acc.N
  /\ \E latency \in LatencyInputs :
       LET Store(row) == [txRows EXCEPT ![acc.run] = Append(@, row)]
           Failed(at) == [status |-> "failed", latencyMs |-> at, feeSol |-> Null]
           Later == {at \in LatencyInputs : at >= latency}
       IN \/ \E cost \in (IF useMockData THEN MockCosts ELSE {0}) :
               \/ /\ acc' = AttemptSuccess(acc, latency, cost)
                  /\ txRows' = Store([status |-> "success", latencyMs |-> latency,
                                      feeSol |-> (cost + 5) \div 10])
               \/ \E at \in Later :
                    /\ acc' = [AttemptSuccess(acc, latency, cost) EXCEPT !.failedCount = @ + 1]
                    /\ txRows' = Store(Failed(at))
          \/ /\ acc' = AttemptFailed(acc, latency)
             /\ txRows' = Store(Failed(latency))
          \/ \E at \in Later :
               /\ acc' = [AttemptFailed(acc, latency) EXCEPT !.failedCount = @ + 1]
               /\ txRows' = Store(Failed(at))
          \/ /\ acc' = AttemptRaised(acc, latency)
             /\ txRows' = Store(Failed(latency))
  /\ UNCHANGED <<benchVars, limiterVars, traceVars, alertVars, pilotVars, summaries, selected, completes, dashboard, summarizing, summaryCount>>

\* The outer catch: the set-up raises, or the store write of catch (txError)
\* raises; the run is marked failed (unless that update raises too).
FatalStats ==
  /\ acc.N > 0 /\ acc.i < acc.N
  /\ \E dbOk \in BOOLEAN :
       summaries' = IF dbOk THEN UpdateStats(summaries, acc.run, [status |-> "failed"]) ELSE summaries
  /\ acc' = NoAcc
  /\ UNCHANGED <<benchVars, limiterVars, traceVars, alertVars, pilotVars, txRows, selected, completes, dashboard, summarizing, summaryCount>>

\* After the loop: the final metrics are computed and stored; when that
\* update raises, the outer catch marks the run failed.
Finish ==
  /\ acc.N > 0 /\ acc.i = acc.N
  /\ \E db \in {"ok", "first_raises", "raises"} :
       summaries' = IF db = "ok" THEN UpdateStats(summaries, acc.run, RunnerSummary(acc))
                    ELSE IF db = "first_raises"
                    THEN UpdateStats(summaries, acc.run, [status |-> "failed"])
                    ELSE summaries
  /\ acc' = NoAcc
  /\ UNCHANGED <<benchVars, limiterVars, traceVars, alertVars, pilotVars, txRows, selected, completes, dashboard, summarizing, summaryCount>>

\* POST /init-run with transactionCount n: the run is created, the client
\* drives it.  A body without transactionCount passes the range test
\* (undefined < 1 and undefined > 100 are false) and the column takes its
\* default, 0.
InitRunStats ==
  /\ Len(txRows) < MaxRuns
  /\ \E n \in 0..MaxStatTx :
       /\ Requested + n <= (IF Len(txRows) = 0 THEN MaxStatTx ELSE MaxStatTxRuns)
       /\ summaries' = Append(summaries, NewRunStats(n))
  /\ txRows' = Append(txRows, <<>>)
  /\ UNCHANGED <<benchVars, limiterVars, traceVars, alertVars, pilotVars, acc, selected, completes, dashboard, summarizing, summaryCount>>

\* POST /submit-signed-tx with the id of a run of the store: the row after
\* sendTransaction returned, or the failed row of the catch.  latency is
\* Date.now() - startTime after the await of sendTransaction: 0 within the
\* same millisecond.
SubmitSignedTxStats ==
  /\ Requested < (IF Len(txRows) <= 1 THEN MaxStatTx ELSE MaxStatTxRuns)
  /\ \E k \in DOMAIN txRows :
       \/ \E latency \in {0, 10} :
            txRows' = [txRows EXCEPT ![k] =
                         Append(@, [status |-> "success", latencyMs |-> latency,
                                    feeSol |-> ClientFee])]
       \/ txRows' = [txRows EXCEPT ![k] =
                       Append(@, [status |-> "failed", latencyMs |-> 0, feeSol |-> 0])]
  /\ UNCHANGED <<benchVars, limiterVars, traceVars, alertVars, pilotVars, acc, summaries, selected, completes, dashboard, summarizing, summaryCount>>

\* POST /complete-run/:runId up to its second await: getBenchmarkTransactions
\* has returned the rows of the run (none for an unknown id).
CompleteRunSelectStats ==
  /\ completes < MaxCompletes
  /\ completes' = completes + 1
  /\ \E k \in DOMAIN txRows \cup {UnknownRun} :
       selected' = Append(selected, [run |-> k,
                                     txs |-> IF k = UnknownRun THEN <<>> ELSE txRows[k]])
  /\ UNCHANGED <<benchVars, limiterVars, traceVars, alertVars, pilotVars, acc, txRows, summaries, dashboard, summarizing, summaryCount>>

\* POST /complete-run/:runId: updateBenchmarkRun stores the statistics of the
\* rows selected (or raises).
CompleteRunStats ==
  /\ \E j \in DOMAIN selected, dbOk \in BOOLEAN :
       /\ summaries' = IF dbOk
                       THEN UpdateStats(summaries, selected[j].run,
                                        CompleteSummary(selected[j].txs))
                       ELSE summaries
       /\ selected' = [i \in 1..(Len(selected) - 1) |->
                         IF i < j THEN selected[i] ELSE selected[i + 1]]
  /\ UNCHANGED <<benchVars, limiterVars, traceVars, alertVars, pilotVars, acc, txRows, completes, dashboard, summarizing, summaryCount>>

\* GET /benchmarks/summary up to the await of the select of
\* getBenchmarkAggregatedMetrics: cutoffTime = new Date(Date.now() - window).
\* With a window that is not a number cutoffTime is an Invalid Date, which the
\* query cannot take: the call raises and the handler answers 500.
SummaryRequest ==
  /\ summaryCount < MaxSummaries
  /\ summaryCount' = summaryCount + 1
  /\ \E timeWindow \in TimeWindows :
       summarizing' = IF TimeWindowMs(timeWindow) = NaN THEN summarizing
                      ELSE Append(summarizing, benchNow - TimeWindowMs(timeWindow))
  /\ UNCHANGED <<benchVars, limiterVars, traceVars, alertVars, pilotVars, acc, txRows, summaries, selected, completes, dashboard>>

\* The select of getBenchmarkAggregatedMetrics returns the completed runs
\* created at or after cutoffTime, which are folded and sent, or it raises
\* (answer 500).
Summary ==
  /\ \E j \in DOMAIN summarizing, dbOk \in BOOLEAN :
       /\ dashboard' = IF dbOk THEN AggregatedMetrics(CompletedRuns(summarizing[j]))
                       ELSE dashboard
       /\ summarizing' = [i \in 1..(Len(summarizing) - 1) |->
                            IF i < j THEN summarizing[i] ELSE summarizing[i + 1]]
  /\ UNCHANGED <<benchVars, limiterVars, traceVars, alertVars, pilotVars, acc, txRows, summaries, selected, completes, summaryCount>>

NextStats ==
  \/ BeginLoop \/ Iterate \/ FatalStats \/ Finish
  \/ InitRunStats \/ SubmitSignedTxStats \/ CompleteRunSelectStats \/ CompleteRunStats
  \/ SummaryRequest \/ Summary \/ BenchTick

\* The statistics of the runs, for every outcome, latency and cost of the
\* attempts.  These handlers read useMockData only, which the placeholder key
\* sets as the empty key does.
InitStats == Init /\ apiKey # PlaceholderKey
SpecStats == InitStats /\ [][NextStats]_vars

\* ------------------------------------------------------------ rate limiter
\* createApiKeyRateLimiter, the middleware after requireApiKey.

\* const windowMs = 60 * 60 * 1000
WindowMs == 3600000
\* req.apiKey.rateLimit || 1000
DefaultRateLimit == 1000

\* The keys requireApiKey attaches, and a request that carries none.
KeyIds == {"key-a", "key-b"}
NoKey == "none"
\* api_keys.rate_limit of each key.
StoredRateLimit(k) == IF k = "key-a" THEN 1 ELSE MaxRateLimit
RateLimitOf(k) == IF StoredRateLimit(k) # 0 THEN StoredRateLimit(k) ELSE DefaultRateLimit

\* if (!limiter || limiter.resetAt < now) limiter = { count: 0, resetAt: now + windowMs }
Expired(ls, k, t) == k \notin DOMAIN ls \/ ls[k].resetAt < t
CurrentLimiter(ls, k, t) ==
  IF Expired(ls, k, t) THEN [count |-> 0, resetAt |-> t + WindowMs] ELSE ls[k]
\* limiters.set(apiKeyId, limiter)
SetLimiter(ls, k, l) == [j \in DOMAIN ls \cup {k} |-> IF j = k THEN l ELSE ls[j]]

\* if (limiter.count > rateLimit) return res.status(429)
ExceedsOffByOne(count, rateLimit) == count > rateLimit + 1
Exceeds(count, rateLimit) == count > rateLimit

\* One request runs through the middleware (it has no await: one step).
\* Code 429 is the middleware's own answer, 200 stands for next().
RateLimited ==
  /\ Len(limited) < MaxLimited
  /\ \E k \in KeyIds \cup {NoKey} :
       IF k = NoKey
       THEN /\ limited' = Append(limited, [key |-> k, at |-> clock, code |-> 200])
            /\ UNCHANGED limiters
       ELSE LET l == CurrentLimiter(limiters, k, clock)
                counted == [l EXCEPT !.count = @ + 1]
            IN /\ limiters' = SetLimiter(limiters, k, counted)
               /\ limited' = Append(limited,
                    [key |-> k, at |-> clock,
                     code |-> IF Exceeds(counted.count, RateLimitOf(k)) THEN 429 ELSE 200])
  /\ UNCHANGED <<benchVars, aggVars, traceVars, alertVars, pilotVars, clock, ticks>>

\* Time passes between two requests: a millisecond or a whole window.
Tick ==
  /\ ticks < MaxTicks
  /\ \E d \in {1, WindowMs} : clock' = clock + d
  /\ ticks' = ticks + 1
  /\ UNCHANGED <<benchVars, aggVars, traceVars, alertVars, pilotVars, limiters, limited>>

NextRateLimit == RateLimited \/ Tick

\* The rate limiter under every order of requests of two keys and clock advances.
SpecRateLimit == Init /\ [][NextRateLimit]_vars

\* ------------------------------------------------------------------ calls
\* executeBenchmark of one run, and the two client-driven endpoints, with every
\* call they make written down.  tx is the iteration (i + 1; 0 during setup),
\* arg the RPC endpoint or the stored status, out the outcome of the call.

Entry(tx, op, arg, out) == [tx |-> tx, op |-> op, arg |-> arg, out |-> out]

\* The HTTP exchanges one Gateway client call makes: none in mock mode, one
\* fetch in live mode.
FetchesRetried(mock, tx) ==
  IF mock THEN <<>> ELSE <<Entry(tx, "fetch", "", ""), Entry(tx, "fetch", "", "")>>
Fetches(mock, tx) == IF mock THEN <<>> ELSE <<Entry(tx, "fetch", "", "")>>

\* The Gateway calls of the build step, before optimize: the transaction gets
\* the preset's transfer instruction only, no tip instructions are fetched.
BuildStepWithTips(tx) == <<Entry(tx, "getTipInstructions", "", "ok")>>
BuildStep(tx) == <<>>

\* How a result of the Gateway client reads in the trace.
OutOf(res) ==
  IF res.kind = "throw" THEN "raise"
  ELSE IF "status" \notin DOMAIN res THEN "ok"
  ELSE IF ~res.signature THEN "no_signature"
  ELSE res.status

\* POST /run whose key and recipient parse: the first probe is issued.
TraceStart ==
  /\ tr.pc = "none"
  /\ \E n \in 1..MaxTraceN : tr' = SetupStart(n, "valid", "valid")
  /\ UNCHANGED <<benchVars, aggVars, limiterVars, alertVars, pilotVars, endpoint, trace, handled, handlerLog>>

\* for (const endpoint of RPC_ENDPOINTS): the probe of endpoint tr.probe returns
\* or raises.
TraceProbe ==
  /\ tr.pc = "probe"
  /\ \E ok \in BOOLEAN :
       /\ trace' = Append(trace, Entry(0, "probe", tr.probe, IF ok THEN "ok" ELSE "raise"))
       /\ endpoint' = IF ok THEN tr.probe ELSE endpoint
       /\ tr' = IF ok THEN LoopHead([tr EXCEPT !.workingConnection = TRUE, !.probe = 0])
                ELSE AfterProbeFailed(tr)
  /\ UNCHANGED <<benchVars, aggVars, limiterVars, alertVars, pilotVars, handled, handlerLog>>

\* connection.getLatestBlockhash() on the cached connection.
TraceBlockhash ==
  /\ tr.pc = "blockhash"
  /\ \E ok \in BOOLEAN :
       /\ trace' = Append(trace, Entry(tr.i + 1, "getLatestBlockhash", endpoint,
                                       IF ok THEN "ok" ELSE "raise"))
       /\ tr' = IF ok THEN [tr EXCEPT !.pc = "optimize"] ELSE CatchTx(tr)
  /\ UNCHANGED <<benchVars, aggVars, limiterVars, alertVars, pilotVars, endpoint, handled, handlerLog>>

\* buildGatewayTransaction, then decode and sign.
TraceOptimize ==
  /\ tr.pc = "optimize"
  /\ \E rsp \in Answers(useMockData), signOk \in BOOLEAN :
       LET res == BuildGatewayTransaction(useMockData, TRUE, rsp)
           built == BuildStep(tr.i + 1) \o Fetches(useMockData, tr.i + 1)
                      \o <<Entry(tr.i + 1, "buildGatewayTransaction", "", OutOf(res))>>
           signed == IF res.kind = "return"
                     THEN <<Entry(tr.i + 1, "sign", "", IF signOk THEN "ok" ELSE "raise")>>
                     ELSE <<>>
       IN /\ res.kind = "throw" => signOk
          /\ trace' = trace \o built \o signed
          /\ tr' = IF res.kind = "return" /\ signOk
                   THEN [tr EXCEPT !.pc = "submit"] ELSE CatchTx(tr)
  /\ UNCHANGED <<benchVars, aggVars, limiterVars, alertVars, pilotVars, endpoint, handled, handlerLog>>

\* sendTransaction returns or raises.
TraceSubmit ==
  /\ tr.pc = "submit"
  /\ \E rsp \in Answers(useMockData), draw \in Draws(useMockData) :
       LET res == SendTransaction(useMockData, rsp, draw) IN
       /\ trace' = trace \o Fetches(useMockData, tr.i + 1)
                     \o <<Entry(tr.i + 1, "sendTransaction", "", OutOf(res))>>
       /\ tr' = OnSendReturn(tr, res)
  /\ UNCHANGED <<benchVars, aggVars, limiterVars, alertVars, pilotVars, endpoint, handled, handlerLog>>

\* createBenchmarkTransaction of the try block; then the progress event and
\* the start of the delay.
TraceRecord ==
  /\ tr.pc = "record"
  /\ \E dbOk \in BOOLEAN :
       IF dbOk THEN
         /\ trace' = trace \o <<Entry(tr.i + 1, "createBenchmarkTransaction", tr.pending, "ok"),
                                Entry(tr.i + 1, "progress", "", "")>>
         /\ tr' = [tr EXCEPT !.pc = "delay", !.pending = "none"]
       ELSE
         /\ trace' = Append(trace, Entry(tr.i + 1, "createBenchmarkTransaction", tr.pending, "raise"))
         /\ tr' = CatchTx([tr EXCEPT !.dbRaised = TRUE])
  /\ UNCHANGED <<benchVars, aggVars, limiterVars, alertVars, pilotVars, endpoint, handled, handlerLog>>

\* setTimeout(resolve, 1000) fires.
TraceDelay ==
  /\ tr.pc = "delay"
  /\ trace' = Append(trace, Entry(tr.i + 1, "delay", "", ""))
  /\ tr' = LoopHead([tr EXCEPT !.i = @ + 1])
  /\ UNCHANGED <<benchVars, aggVars, limiterVars, alertVars, pilotVars, endpoint, handled, handlerLog>>

\* createBenchmarkTransaction of catch (txError); then the progress event.
TraceRecordCatch ==
  /\ tr.pc = "recordCatch"
  /\ \E dbOk \in BOOLEAN :
       IF dbOk THEN
         /\ trace' = trace \o <<Entry(tr.i + 1, "createBenchmarkTransaction", "failed", "ok"),
                                Entry(tr.i + 1, "progress", "", "")>>
         /\ tr' = LoopHead([tr EXCEPT !.i = @ + 1, !.pending = "none"])
       ELSE
         /\ trace' = Append(trace, Entry(tr.i + 1, "createBenchmarkTransaction", "failed", "raise"))
         /\ tr' = CatchFatal([tr EXCEPT !.dbRaised = TRUE], "store error")
  /\ UNCHANGED <<benchVars, aggVars, limiterVars, alertVars, pilotVars, endpoint, handled, handlerLog>>

\* The final update, or the update of the outer catch.
TraceEnd ==
  /\ tr.pc \in {"final", "fatal"}
  /\ \E dbOk \in BOOLEAN :
       LET status == IF tr.pc = "final" THEN "completed" ELSE "failed" IN
       /\ trace' = Append(trace, Entry(0, "updateBenchmarkRun", status,
                                       IF dbOk THEN "ok" ELSE "raise"))
       /\ tr' = IF dbOk THEN [tr EXCEPT !.pc = "done"]
                ELSE IF tr.pc = "final"
                THEN CatchFatal([tr EXCEPT !.dbRaised = TRUE], "store error")
                ELSE [tr EXCEPT !.pc = "rejected", !.dbRaised = TRUE]
  /\ UNCHANGED <<benchVars, aggVars, limiterVars, alertVars, pilotVars, endpoint, handled, handlerLog>>

\* POST /build-unsigned-tx: 400 without the fields, 503 without the Gateway key
\* in the environment; then getLatestBlockhash and buildGatewayTransaction.
BuildUnsignedTx ==
  /\ handled < MaxHandled
  /\ handled' = handled + 1
  /\ \E hasFields \in BOOLEAN :
       LET tx == handled + 1 IN
       IF ~hasFields \/ apiKey = ""
       THEN handlerLog' = [op |-> "build-unsigned-tx", calls |-> <<>>]
       ELSE \E chainOk \in BOOLEAN :
              IF ~chainOk
              THEN handlerLog' = [op |-> "build-unsigned-tx",
                                  calls |-> <<Entry(tx, "getLatestBlockhash", 0, "raise")>>]
              ELSE \E rsp \in Answers(useMockData) :
                     LET res == BuildGatewayTransaction(useMockData, TRUE, rsp) IN
                     handlerLog' =
                       [op |-> "build-unsigned-tx",
                        calls |-> <<Entry(tx, "getLatestBlockhash", 0, "ok")>>
                                    \o BuildStep(tx) \o Fetches(useMockData, tx)
                                    \o <<Entry(tx, "buildGatewayTransaction", "", OutOf(res))>>]
  /\ UNCHANGED <<benchVars, aggVars, limiterVars, alertVars, pilotVars, tr, endpoint, trace>>

\* POST /submit-signed-tx: 400 without a signed transaction; otherwise send,
\* then, with a run id, store the attempt; on an exception store, with a run
\* id, a failed attempt (and swallow a second exception).
SubmitSignedTxCalls ==
  /\ handled < MaxHandled
  /\ handled' = handled + 1
  /\ \E hasTx \in BOOLEAN :
       IF ~hasTx THEN handlerLog' = [op |-> "submit-signed-tx", calls |-> <<>>]
       ELSE \E rsp \in Answers(useMockData), draw \in Draws(useMockData), hasRun \in BOOLEAN :
              LET tx == handled + 1
                  res == SendTransaction(useMockData, rsp, draw)
                  sent == Fetches(useMockData, tx)
                            \o <<Entry(tx, "sendTransaction", "", OutOf(res))>>
              IN IF ~hasRun THEN handlerLog' = [op |-> "submit-signed-tx", calls |-> sent]
                 ELSE \E db \in IF res.kind = "throw" THEN {"ok", "raises"}
                                ELSE {"ok", "first_raises", "raises"} :
                        LET first == IF res.kind = "return"
                                     THEN <<Entry(tx, "createBenchmarkTransaction",
                                                  ClientAttempt(res).status,
                                                  IF db = "ok" THEN "ok" ELSE "raise")>>
                                     ELSE <<>>
                            second == IF res.kind = "return" /\ db = "ok" THEN <<>>
                                      ELSE <<Entry(tx, "createBenchmarkTransaction", "failed",
                                                   IF db = "raises" THEN "raise" ELSE "ok")>>
                        IN handlerLog' = [op |-> "submit-signed-tx",
                                          calls |-> sent \o first \o second]
  /\ UNCHANGED <<benchVars, aggVars, limiterVars, alertVars, pilotVars, tr, endpoint, trace>>

NextTrace ==
  \/ TraceStart \/ TraceProbe \/ TraceBlockhash \/ TraceOptimize \/ TraceSubmit
  \/ TraceRecord \/ TraceDelay \/ TraceRecordCatch \/ TraceEnd
  \/ BuildUnsignedTx \/ SubmitSignedTxCalls

\* One run and the client-driven endpoints under every outcome of every call.
SpecTrace == Init /\ [][NextTrace]_vars

\* ---------------------------------------------------------- alert monitor
\* AlertMonitor: start() runs checkAlertRules at once and then on every timer
\* tick, without waiting for the invocation before; an invocation evaluates the
\* enabled rules one after the other.

\* private readonly ALERT_COOLDOWN = 5 * 60 * 1000
AlertCooldown == 300000

\* The rule keys `${rule.id}-${routeName}` of the enabled rules, in the order
\* getAlertRules returns them.
RuleKeys == <<"rule1-All Routes", "rule2-jito">>

\* this.lastAlertTime.get(ruleKey) || 0
LastAlert(m, key) == IF key \in DOMAIN m THEN m[key] ELSE 0
\* if (now - lastAlert < this.ALERT_COOLDOWN) return
InCooldown(m, key, t) == t - LastAlert(m, key) < AlertCooldown
\* this.lastAlertTime.set(ruleKey, now)
MarkAlerted(m, key, t) == [j \in DOMAIN m \cup {key} |-> IF j = key THEN t ELSE m[j]]

\* The invocation goes on to the rule after rule k, or ends.
NextRule(k) ==
  IF k < Len(RuleKeys) THEN [pc |-> "evaluate", rule |-> k + 1] ELSE [pc |-> "done", rule |-> 0]

\* start(), or the setInterval callback: a new invocation awaits the rules and
\* the metrics.
StartCheck ==
  /\ \E c \in 1..MaxChecks :
       /\ checks[c].pc = "idle"
       /\ \A b \in 1..(c - 1) : checks[b].pc # "idle"
       /\ checks' = [checks EXCEPT ![c] = [pc |-> "load", rule |-> 0]]
  /\ UNCHANGED <<benchVars, aggVars, limiterVars, traceVars, pilotVars,
                 lastAlertTime, alertNow, alertTicks, decided, alerts>>

\* getAlertRules, getAggregatedMetrics, getRoutePerformance have returned (with
\* enabled rules), or one of them raised.
RulesLoaded ==
  /\ \E c \in 1..MaxChecks, ok \in BOOLEAN :
       /\ checks[c].pc = "load"
       /\ checks' = [checks EXCEPT ![c] =
                       IF ok THEN [pc |-> "evaluate", rule |-> 1] ELSE [pc |-> "done", rule |-> 0]]
  /\ UNCHANGED <<benchVars, aggVars, limiterVars, traceVars, pilotVars,
                 lastAlertTime, alertNow, alertTicks, decided, alerts>>

\* evaluateRule up to its first await: the threshold is breached or not; if it
\* is, triggerAlert checks the cooldown, records the time and issues createAlert.
EvaluateRule ==
  /\ \E c \in 1..MaxChecks, shouldAlert \in BOOLEAN :
       LET k == checks[c].rule
           key == RuleKeys[k]
       IN /\ checks[c].pc = "evaluate"
          /\ IF shouldAlert /\ ~InCooldown(lastAlertTime, key, alertNow)
             THEN /\ lastAlertTime' = MarkAlerted(lastAlertTime, key, alertNow)
                  /\ decided' = Append(decided, [key |-> key, at |-> alertNow])
                  /\ checks' = [checks EXCEPT ![c] = [pc |-> "creating", rule |-> k]]
             ELSE /\ checks' = [checks EXCEPT ![c] = NextRule(k)]
                  /\ UNCHANGED <<lastAlertTime, decided>>
  /\ UNCHANGED <<benchVars, aggVars, limiterVars, traceVars, pilotVars, alertNow, alertTicks, alerts>>

\* storage.createAlert returns (the row gets created_at = now()) or raises
\* (caught by evaluateRule); the invocation goes on to the next rule.
AlertCreated ==
  /\ \E c \in 1..MaxChecks, ok \in BOOLEAN :
       LET k == checks[c].rule IN
       /\ checks[c].pc = "creating"
       /\ alerts' = IF ok THEN Append(alerts, [key |-> RuleKeys[k], createdAt |-> alertNow])
                    ELSE alerts
       /\ checks' = [checks EXCEPT ![c] = NextRule(k)]
  /\ UNCHANGED <<benchVars, aggVars, limiterVars, traceVars, pilotVars,
                 lastAlertTime, alertNow, alertTicks, decided>>

\* Time passes: a millisecond, or one millisecond less than the cooldown.
AlertTick ==
  /\ alertTicks < MaxAlertTicks
  /\ \E d \in {1, AlertCooldown - 1} : alertNow' = alertNow + d
  /\ alertTicks' = alertTicks + 1
  /\ UNCHANGED <<benchVars, aggVars, limiterVars, traceVars, pilotVars,
                 lastAlertTime, checks, decided, alerts>>

NextAlerts == StartCheck \/ RulesLoaded \/ EvaluateRule \/ AlertCreated \/ AlertTick

\* The alert monitor with overlapping invocations.
SpecAlerts == Init /\ [][NextAlerts]_vars

\* ----------------------------------------- route configurations, AutoPilot
\* The route_configurations table with the operations that write isActive, and
\* the AutoPilot singleton: start(), stop(), its interval timer and the
\* optimize invocations, which run on after each of their awaits.  The id of a
\* row is its position in insertion order.

ConfigIds == 1..MaxConfigs

\* createConfiguration: insert the row as given.
CreateConfiguration(rows, name, active) == Append(rows, [name |-> name, isActive |-> active])

\* activateConfiguration, first update: set({ isActive: false }) on every row.
DeactivateAll(rows) == [k \in DOMAIN rows |-> [rows[k] EXCEPT !.isActive = FALSE]]

\* activateConfiguration, second update: set({ isActive: true }) where id = id.
ActivateOne(rows, id) ==
  [k \in DOMAIN rows |-> IF k = id THEN [rows[k] EXCEPT !.isActive = TRUE] ELSE rows[k]]

\* The rows getActiveConfiguration selects from (where isActive = true).
ActiveConfigs(rows) == {k \in DOMAIN rows : rows[k].isActive}

\* One invocation moves from one await of optimize to the next, or ends.
Leave(o, stage) == [o EXCEPT ![stage] = @ - 1]
Enter(o, stage) == [o EXCEPT ![stage] = @ + 1]

\* seed.ts, a process of its own on the same database: it awaits the insert
\* of the default configuration (active, whatever rows there are), of two
\* ai_insights rows and of two alerts rows (source "system", no rule key), in
\* turn, and exits; an insert that raises ends it (exit code 1).
Seed ==
  /\ \E dbOk \in BOOLEAN :
       \/ /\ seeding = 0 /\ dbOk /\ Len(configs) < MaxConfigs
          /\ configs' = CreateConfiguration(configs, "Default Configuration", TRUE)
          /\ seeding' = 1
          /\ UNCHANGED alerts
       \/ /\ seeding \in {1, 2}
          /\ seeding' = IF dbOk THEN seeding + 1 ELSE 0
          /\ UNCHANGED <<configs, alerts>>
       \/ /\ seeding \in {3, 4}
          /\ alerts' = IF dbOk
                       THEN Append(alerts,
                                   [key |-> <<"High Network Congestion",
                                              "Cost Savings Milestone">>[seeding - 2],
                                    createdAt |-> alertNow])
                       ELSE alerts
          /\ seeding' = IF dbOk /\ seeding = 3 THEN 4 ELSE 0
          /\ UNCHANGED configs
  /\ UNCHANGED <<benchVars, aggVars, limiterVars, traceVars,
                 lastAlertTime, alertNow, alertTicks, checks, decided,
                 activating, activations, isEnabled, checkInterval, armed,
                 optimizing, optimizations, lastOptimization>>

\* POST /api/configurations: the body is parsed with
\* insertRouteConfigurationSchema (isActive is the caller's, false when left
\* out) and inserted; 400 when the parse or the insert raises.
PostConfiguration ==
  /\ Len(configs) < MaxConfigs
  /\ \E valid \in BOOLEAN, active \in BOOLEAN, dbOk \in BOOLEAN :
       configs' = IF valid /\ dbOk THEN CreateConfiguration(configs, "user", active)
                  ELSE configs
  /\ UNCHANGED <<benchVars, aggVars, limiterVars, traceVars, alertVars, seeding,
                 activating, activations, isEnabled, checkInterval, armed,
                 optimizing, optimizations, lastOptimization>>

\* activateConfiguration(id) up to its second await: the first update has
\* run (or has raised, which ends the call).
ActivateBegin ==
  /\ activations < MaxActivations
  /\ activations' = activations + 1
  /\ \E id \in ConfigIds, dbOk \in BOOLEAN :
       IF dbOk THEN /\ configs' = DeactivateAll(configs)
                    /\ activating' = activating (+) SetToBag({id})
       ELSE UNCHANGED <<configs, activating>>
  /\ UNCHANGED <<benchVars, aggVars, limiterVars, traceVars, alertVars, seeding,
                 isEnabled, checkInterval, armed,
                 optimizing, optimizations, lastOptimization>>

\* activateConfiguration(id): the second update runs (or raises).
ActivateEnd ==
  /\ \E id \in BagToSet(activating), dbOk \in BOOLEAN :
       /\ configs' = IF dbOk THEN ActivateOne(configs, id) ELSE configs
       /\ activating' = activating (-) SetToBag({id})
  /\ UNCHANGED <<benchVars, aggVars, limiterVars, traceVars, alertVars, seeding,
                 activations, isEnabled, checkInterval, armed,
                 optimizing, optimizations, lastOptimization>>

\* AutoPilot.start() up to its first await: return when enabled; otherwise
\* enable, set the interval timer and call optimize, which runs up to its
\* first await.
PilotStart ==
  /\ isEnabled \/ optimizations < MaxOptimizations
  /\ IF isEnabled
     THEN UNCHANGED <<isEnabled, checkInterval, armed, optimizing, optimizations>>
     ELSE /\ isEnabled' = TRUE
          /\ checkInterval' = TRUE
          /\ armed' = armed + 1
          /\ optimizing' = Enter(optimizing, "load")
          /\ optimizations' = optimizations + 1
  /\ UNCHANGED <<benchVars, aggVars, limiterVars, traceVars, alertVars, seeding,
                 configs, activating, activations, lastOptimization>>

\* AutoPilot.stop(): return when not enabled; otherwise disable and clear the
\* timer checkInterval holds.
PilotStop ==
  /\ IF ~isEnabled THEN UNCHANGED <<isEnabled, checkInterval, armed>>
     ELSE /\ isEnabled' = FALSE
          /\ IF checkInterval THEN armed' = armed - 1 /\ checkInterval' = FALSE
             ELSE UNCHANGED <<checkInterval, armed>>
  /\ UNCHANGED <<benchVars, aggVars, limiterVars, traceVars, alertVars, seeding,
                 configs, activating, activations,
                 optimizing, optimizations, lastOptimization>>

\* An armed interval timer fires: its callback calls optimize.
TimerFires ==
  /\ armed > 0
  /\ optimizations < MaxOptimizations
  /\ optimizing' = Enter(optimizing, "load")
  /\ optimizations' = optimizations + 1
  /\ UNCHANGED <<benchVars, aggVars, limiterVars, traceVars, alertVars, seeding,
                 configs, activating, activations, isEnabled, checkInterval, armed,
                 lastOptimization>>

\* optimize: getRecentTransactions and getActiveConfiguration return (or
\* raise, into the catch); return when there is no active configuration;
\* otherwise call openRouter.chat.
OptimizeLoad ==
  /\ optimizing.load > 0
  /\ \E ok \in BOOLEAN :
       optimizing' = IF ok /\ ActiveConfigs(configs) # {}
                     THEN Enter(Leave(optimizing, "load"), "ai")
                     ELSE Leave(optimizing, "load")
  /\ UNCHANGED <<benchVars, aggVars, limiterVars, traceVars, alertVars, seeding,
                 configs, activating, activations, isEnabled, checkInterval, armed,
                 optimizations, lastOptimization>>

\* optimize: openRouter.chat returns or raises.  Without a JSON object in the
\* answer return; without a significant change set lastOptimization and
\* return; otherwise call createConfiguration with isActive: true.
OptimizeAi ==
  /\ optimizing.ai > 0
  /\ \E out \in {"raise", "no_json", "no_change", "change"} :
       /\ optimizing' = IF out = "change" THEN Enter(Leave(optimizing, "ai"), "create")
                        ELSE Leave(optimizing, "ai")
       /\ lastOptimization' = (lastOptimization \/ out = "no_change")
  /\ UNCHANGED <<benchVars, aggVars, limiterVars, traceVars, alertVars, seeding,
                 configs, activating, activations, isEnabled, checkInterval, armed,
                 optimizations>>

\* optimize: createConfiguration returns (the row is inserted,
\* lastOptimization is set) or raises (into the catch).
OptimizeCreate ==
  /\ optimizing.create > 0
  /\ Len(configs) < MaxConfigs
  /\ optimizing' = Leave(optimizing, "create")
  /\ \E dbOk \in BOOLEAN :
       IF dbOk THEN /\ configs' = CreateConfiguration(configs, "Auto-Optimized", TRUE)
                    /\ lastOptimization' = TRUE
       ELSE UNCHANGED <<configs, lastOptimization>>
  /\ UNCHANGED <<benchVars, aggVars, limiterVars, traceVars, alertVars, seeding,
                 activating, activations, isEnabled, checkInterval, armed,
                 optimizations>>

NextAutoPilot ==
  \/ Seed \/ PostConfiguration \/ ActivateBegin \/ ActivateEnd
  \/ PilotStart \/ PilotStop \/ TimerFires
  \/ OptimizeLoad \/ OptimizeAi \/ OptimizeCreate

\* The route configurations and the AutoPilot singleton.
SpecAutoPilot == Init /\ [][NextAutoPilot]_vars

\* ----------------------------------------------------------- specification

Next ==
  \/ StartRun
  \/ InitRun
  \/ \E r \in RunIds : RunnerStep(r)
  \/ SubmitSignedTx
  \/ CompleteRunSelect
  \/ CompleteRun
  \/ BenchTick

\* The benchmark router, its runners and the store.
Spec == Init /\ [][Next]_vars

NextGateway == GwBuild \/ GwSend \/ GwTips

\* The Gateway client under every key and every answer of the remote service.
SpecGateway == Init /\ [][NextGateway]_vars

\* ================================================================== claims

\* The attempts the runner of run r has stored, and the progress events sent.
Recorded(r) == CountBy(attempts[r], "runner")
RecordedAs(r, st) ==
  BagCardinality([t \in {u \in BagToSet(attempts[r]) : u.by = "runner" /\ u.status = st}
                    |-> attempts[r][t]])
ProgressSent(r) ==
  Cardinality({k \in DOMAIN events[r] : events[r][k].type = "benchmark_progress"})
Finished(rn) == rn.pc \in {"done", "rejected"}

\* C1: at every moment of a run's life the successful and the failed counts of
\* its row add up to at most its total.
C1_CountsWithinTotal ==
  \A r \in Created :
    runs[r].successfulTransactions + runs[r].failedTransactions
      <= runs[r].totalTransactions

\* C2: a run whose status is completed or failed has counts that add up to
\* exactly its total.
C2_TerminalCountsEqualTotal ==
  \A r \in Created :
    runs[r].status \in Terminal =>
      runs[r].successfulTransactions + runs[r].failedTransactions
        = runs[r].totalTransactions

\* C3: once a run is completed or failed no step modifies its row again.
C3_TerminalImmutable ==
  [][\A r \in Created : runs[r].status \in Terminal => runs'[r] = runs[r]]_vars

\* C4: a run started by /run is completed or failed once its runner has
\* stopped (every call it awaited has returned or raised).
C4_StoppedRunnerIsTerminal ==
  \A r \in Created : Finished(runner[r]) => runs[r].status \in Terminal

\* C5: when setup succeeded and only attempts fail (build, optimize, sign or
\* submit raising, submit returning a non-success status), the step that ends
\* the runner has gone through all N iterations and marks the run completed,
\* with the counts of the successful and the failed attempts it recorded.
C5_AttemptFailuresNeverAbort ==
  [][\A r \in RunIds :
       (/\ ~Finished(runner[r]) /\ Finished(runner'[r])
        /\ runner'[r].workingConnection /\ ~runner'[r].dbRaised)
       => /\ runner'[r].i = runner'[r].N
          /\ runs'[r].status = "completed"
          /\ runs'[r].successfulTransactions = RecordedAs(r, "success")'
          /\ runs'[r].failedTransactions = RecordedAs(r, "failed")'
          /\ runs'[r].successfulTransactions + runs'[r].failedTransactions
               = runs'[r].totalTransactions
          /\ events'[r][Len(events'[r])].type = "benchmark_complete"]_vars

C5_Witness ==
  \E r \in Created :
    /\ runner[r].pc = "done" /\ runner[r].workingConnection /\ ~runner[r].dbRaised
    /\ runner[r].N = 2 /\ runner[r].successCount = 1 /\ runner[r].failedCount = 1
    /\ runs[r].status = "completed"

\* C6: when setup fails (key, recipient, or no reachable RPC endpoint) the step
\* that ends the runner marks the run failed; the runner has recorded no
\* attempt and sent no progress event, and the last event is benchmark_error
\* with a non-empty message.
C6_SetupFailureFailsRun ==
  [][\A r \in RunIds :
       (/\ ~Finished(runner[r]) /\ Finished(runner'[r])
        /\ ~runner'[r].workingConnection /\ ~runner'[r].dbRaised)
       => /\ runs'[r].status = "failed"
          /\ Recorded(r)' = 0
          /\ ProgressSent(r)' = 0
          /\ events'[r][Len(events'[r])].type = "benchmark_error"
          /\ events'[r][Len(events'[r])].error # ""]_vars

C6_Witness ==
  \E r \in Created :
    /\ runner[r].pc = "done" /\ ~runner[r].workingConnection
    /\ runner[r].error = "All RPC endpoints are unavailable"
    /\ runs[r].status = "failed" /\ Recorded(r) = 0

\* C7: the runner records exactly one attempt per iteration: i attempts after
\* i iterations (one more while the delay of the current iteration runs), and
\* exactly N once the loop is left.
C7_OneAttemptPerIteration ==
  \A r \in RunIds :
    LET rn == runner[r] IN
    /\ Recorded(r) = rn.i + (IF rn.pc = "delay" THEN 1 ELSE 0)
    /\ Recorded(r) <= rn.N
    /\ rn.pc = "final" \/ (rn.pc = "done" /\ rn.error = "") => Recorded(r) = rn.N

C7_Witness ==
  \E r \in Created :
    /\ runner[r].pc = "final" /\ runner[r].N = 2
    /\ RecordedAs(r, "success") = 1 /\ RecordedAs(r, "failed") = 1

\* C8: a request of /run or /init-run whose transactionCount is outside 1..100
\* is answered 400 and creates no run, stores no attempt, emits no event and
\* starts no runner.
C8_OutOfRangeRejected ==
  [][(/\ resp'.req # resp.req /\ resp'.hasCount
      /\ (resp'.count < MinTransactionCount \/ resp'.count > MaxTransactionCount))
     => /\ resp'.code = 400
        /\ UNCHANGED <<runs, attempts, events, runner, calls>>]_vars

C8_Witness ==
  /\ resp.op = "init-run" /\ resp.hasCount /\ resp.count = 0 /\ resp.code = 400
  /\ resp.req = 2 /\ Cardinality(Created) = 1

\* C9: a run has at most one Gateway or RPC call in flight, and a call of
\* iteration k is in flight only after the attempts of the k iterations before
\* it were recorded and their progress events sent.
C9_IterationsSequential ==
  \A r \in RunIds :
    /\ Cardinality({c \in calls : c.run = r}) <= 1
    /\ \A c \in calls :
         c.run = r /\ c.op # "probe" => Recorded(r) = c.it /\ ProgressSent(r) = c.it

C9_Witness ==
  \E c \in calls :
    /\ c.op = "sendTransaction" /\ c.it = 1
    /\ Recorded(c.run) = 1 /\ ProgressSent(c.run) = 1

\* C10: a client constructed with a real key is in live mode for good: no call
\* returns a simulated result, and every failed exchange raises.
C10_LiveNeverMock ==
  /\ useMockData = (apiKey \in {"", PlaceholderKey})
  /\ apiKey \notin {"", PlaceholderKey} =>
       \A k \in DOMAIN gwLog :
         /\ ~gwLog[k].res.mock
         /\ gwLog[k].rsp \in {"rpc_error", "http_error", "network_error"}
              => gwLog[k].res.kind = "throw"

C10_Witness ==
  /\ apiKey = "live-key"
  /\ \E k \in DOMAIN gwLog :
       /\ gwLog[k].op = "sendTransaction" /\ gwLog[k].rsp = "http_error"
       /\ gwLog[k].res.kind = "throw"

\* The events of run r that end it, in emission order.
TerminalTypes == {"benchmark_complete", "benchmark_error"}
TerminalSent(r) ==
  Cardinality({k \in DOMAIN events[r] : events[r][k].type \in TerminalTypes})

\* C11: the events of a run are one start, then progress events, then at most
\* one terminal event, which is the last event of the run.
C11_EventOrder ==
  \A r \in RunIds :
    LET ev == events[r] IN
    /\ \A k \in DOMAIN ev : (ev[k].type = "benchmark_start") <=> (k = 1)
    /\ TerminalSent(r) <= 1
    /\ \A k \in DOMAIN ev : ev[k].type \in TerminalTypes => k = Len(ev)

\* The progress events of run r, in emission order.
ProgressOf(r) ==
  LET IsProgress(e) == e.type = "benchmark_progress" IN SelectSeq(events[r], IsProgress)

\* C12: the k-th progress event of a run carries completed = k and total = N;
\* there is one per iteration done (N once the loop is left), and the success
\* and failure counts never decrease from one event to the next.
C12_ProgressPerIteration ==
  \A r \in RunIds :
    LET pe == ProgressOf(r)
        rn == runner[r]
    IN /\ \A k \in DOMAIN pe :
            /\ pe[k].completed = k
            /\ pe[k].total = rn.N
            /\ k > 1 => /\ pe[k].successCount >= pe[k - 1].successCount
                        /\ pe[k].failedCount >= pe[k - 1].failedCount
       /\ Len(pe) = rn.i + (IF rn.pc = "delay" THEN 1 ELSE 0)
       /\ rn.pc = "final" => Len(pe) = rn.N

C12_Witness ==
  \E r \in Created :
    LET pe == ProgressOf(r) IN
    /\ Len(pe) = 2 /\ runner[r].pc = "final"
    /\ pe[1].successCount = 1 /\ pe[1].failedCount = 0
    /\ pe[2].successCount = 1 /\ pe[2].failedCount = 1

\* C13: a run whose row holds summary statistics is completed (a running or a
\* failed run holds none).
C13_StatsOnlyWhenCompleted ==
  \A r \in Created : runs[r].stats # {} => runs[r].status = "completed"

\* C14: while a run is running, the counts of its row are those of its latest
\* progress event.
C14_RowTracksProgress ==
  \A r \in Created :
    LET pe == ProgressOf(r) IN
    (Len(pe) > 0 /\ runs[r].status = "running") =>
      /\ runs[r].successfulTransactions = pe[Len(pe)].successCount
      /\ runs[r].failedTransactions = pe[Len(pe)].failedCount

\* C15: a step of the runner of one run leaves the attempts, the events, the
\* row and the runner of every other run as they are; and the counts a runner
\* has reached are those of the attempts stored under its own run id and of
\* its own latest progress event.
C15_RunsIndependent ==
  [][\A r \in RunIds :
       (runner[r].pc # "none" /\ runner'[r] # runner[r]) =>
         /\ \A q \in RunIds \ {r} :
              /\ attempts'[q] = attempts[q]
              /\ events'[q] = events[q]
              /\ runner'[q] = runner[q]
              /\ q \in Created => runs'[q] = runs[q]
         /\ Recorded(r)' = runner'[r].i + (IF runner'[r].pc = "delay" THEN 1 ELSE 0)
         /\ LET pe == ProgressOf(r)' IN
            runner'[r].pc \in {"delay", "blockhash", "final"} /\ Len(pe) > 0 =>
              /\ pe[Len(pe)].successCount = runner'[r].successCount
              /\ pe[Len(pe)].failedCount = runner'[r].failedCount
         /\ runner'[r].pc = "done" /\ runner[r].pc = "final" =>
              /\ runs'[r].successfulTransactions = runner[r].successCount
              /\ runs'[r].failedTransactions = runner[r].failedCount]_vars

C15_Witness ==
  /\ Created = {1, 2}
  /\ runner[1].pc = "delay" /\ runner[2].pc = "submit"
  /\ RecordedAs(1, "success") = 1 /\ ProgressSent(1) = 1
  /\ attempts[2] = EmptyBag /\ ProgressSent(2) = 0
  /\ runner[1].successCount = 1 /\ runner[2].successCount = 0

\* C27: in every progress event of a run the success and failure counts add
\* up to the event's completed value, which is at most total; and no
\* iteration of the loop increments both counters.
C27_CountsMatchCompleted ==
  \A r \in RunIds :
    LET pe == ProgressOf(r)
        rn == runner[r]
    IN /\ \A k \in DOMAIN pe :
            /\ pe[k].successCount + pe[k].failedCount = pe[k].completed
            /\ pe[k].completed <= pe[k].total
       /\ rn.pc # "none" =>
            rn.successCount + rn.failedCount
              <= rn.i + (IF rn.pc \in {"record", "recordCatch", "delay"} THEN 1 ELSE 0)

\* The latencies recorded in the rows txs (every row of a run that has one).
RecordedLatencies(txs) ==
  LET Has(t) == t.latencyMs # Null
  IN [k \in DOMAIN SelectSeq(txs, Has) |-> SelectSeq(txs, Has)[k].latencyMs]

\* C16: the avgLatency, minLatency and maxLatency stored for a completed run
\* are the mean, the minimum and the maximum of the latencies recorded in its
\* rows, successful and failed alike, and 0 when no row has one.
C16_LatencyStatsOverRows ==
  \A k \in DOMAIN summaries :
    summaries[k].status = "completed" =>
    LET lat == RecordedLatencies(txRows[k]) IN
    /\ summaries[k].avgLatency =
         (IF Len(lat) > 0 THEN ToFixed(lat, 0, Len(lat), 1, 2) ELSE 0)
    /\ summaries[k].minLatency = (IF Len(lat) > 0 THEN 100 * MinSeq(lat) ELSE 0)
    /\ summaries[k].maxLatency = (IF Len(lat) > 0 THEN 100 * MaxSeq(lat) ELSE 0)

\* The fees recorded in the successful rows of txs.
RecordedFees(txs) ==
  LET Has(t) == t.status = "success" /\ t.feeSol # Null
  IN [k \in DOMAIN SelectSeq(txs, Has) |-> SelectSeq(txs, Has)[k].feeSol]

\* C17: the avgCost stored for a completed run is the mean of the fees of its
\* successful rows that have one and its totalCost is their sum, whichever of
\* the runner and /complete-run stored them.
C17_CostStatsOverSuccessful ==
  \A k \in DOMAIN summaries :
    summaries[k].status = "completed" =>
    LET fee == RecordedFees(txRows[k]) IN
    /\ summaries[k].avgCost =
         (IF Len(fee) > 0 THEN ToFixed(fee, 9, Len(fee), 1, 9) ELSE 0)
    /\ summaries[k].totalCost = SumSeq(fee)

\* C18: the successRate stored for a run is successful / requested * 100
\* rendered to one decimal place (here in hundredths, as the column holds it),
\* and 0 when nothing was requested, whichever of the runner and /complete-run
\* stored it.
C18_SuccessRateOneDecimal ==
  \A k \in DOMAIN summaries :
    summaries[k].status = "completed" =>
    LET ok == Len(SelectSeq(txRows[k], LAMBDA t : t.status = "success"))
        requested == summaries[k].totalTransactions
    IN summaries[k].successRate =
         (IF requested > 0 THEN 10 * ToFixed(<<ok>>, 0, requested, 100, 1) ELSE 0)

\* All the rows of the first k runs that are completed and inside the time
\* window, as one collection.
RECURSIVE RowsOfCompleted(_, _)
RowsOfCompleted(k, cutoffTime) ==
  IF k = 0 THEN <<>>
  ELSE RowsOfCompleted(k - 1, cutoffTime)
         \o (IF summaries[k].status = "completed" /\ summaries[k].createdAt >= cutoffTime
             THEN txRows[k] ELSE <<>>)

\* The dashboard summary of n completed runs computed from their rows txs
\* directly, rendered as getBenchmarkAggregatedMetrics renders it.
DirectMetrics(n, requested, txs) ==
  LET ok == Len(SelectSeq(txs, LAMBDA t : t.status = "success"))
      lat == RecordedLatencies(txs)
      fee == RecordedFees(txs)
  IN IF n = 0
     THEN [totalBenchmarks |-> 0, totalTransactions |-> 0, avgSuccessRate |-> 0,
           avgLatency |-> 0, avgCost |-> 0, totalCost |-> 0]
     ELSE [totalBenchmarks |-> n,
           totalTransactions |-> requested,
           avgSuccessRate |-> IF requested > 0 THEN ToFixed(<<ok>>, 0, requested, 100, 1) ELSE 0,
           avgLatency |-> IF Len(lat) > 0 THEN ToFixed(lat, 0, Len(lat), 1, 0) ELSE 0,
           avgCost |-> IF Len(fee) > 0 THEN ToFixed(fee, 9, Len(fee), 1, 9) ELSE 0,
           totalCost |-> SumSeq(fee)]

\* C19: the dashboard summary folded from the per-run summaries of the
\* completed runs of a time window equals the summary of all their attempts
\* aggregated directly (counts, success rate, average latency, average cost,
\* total cost), for runs whose own statistics agree with their rows.
C19_AggregationAssociative ==
  \A timeWindow \in {w \in TimeWindows : TimeWindowMs(w) # NaN} :
    LET cutoffTime == benchNow - TimeWindowMs(timeWindow)
        rs == CompletedRuns(cutoffTime)
    IN ( /\ dashboard = AggregatedMetrics(rs)
         /\ C16_LatencyStatsOverRows
         /\ C17_CostStatsOverSuccessful )
       => dashboard = DirectMetrics(Len(rs),
                                    SumSeq([k \in DOMAIN rs |-> rs[k].totalTransactions]),
                                    RowsOfCompleted(Len(summaries), cutoffTime))

\* The requests of key k that reached the limiter, in order.
RequestsOf(k) == SelectSeq(limited, LAMBDA e : e.key = k)
\* The start of the window request i of the requests q falls into: the first
\* request opens a window of WindowMs; the first request after a window has
\* expired opens the next one.
RECURSIVE WindowStart(_, _)
WindowStart(q, i) ==
  IF i = 1 THEN q[1].at
  ELSE LET s == WindowStart(q, i - 1)
       IN IF q[i].at > s + WindowMs THEN q[i].at ELSE s
\* The rank of request i among the requests of its window.
RankInWindow(q, i) ==
  Cardinality({j \in 1..i : WindowStart(q, j) = WindowStart(q, i)})

\* C20: for each API key, a request is passed on exactly when it is among the
\* first rateLimit requests of that key in its window, and is answered with 429
\* otherwise; a window lasts one hour from its first counted request, the count
\* restarts only with the first request after it has expired, and the requests
\* of other keys play no part.
C20_RateLimitPerKey ==
  \A k \in KeyIds :
    LET q == RequestsOf(k) IN
    \A i \in DOMAIN q :
      /\ q[i].code \in {200, 429}
      /\ q[i].code = 200 <=> RankInWindow(q, i) <= StoredRateLimit(k)

\* key-a is refused inside its window while key-b is passed at the same
\* moment, and key-a is passed again once its window has expired.
C20_Witness ==
  \E i, j, l \in DOMAIN limited :
    /\ i < j /\ j < l
    /\ limited[i].key = "key-a" /\ limited[i].code = 429
    /\ limited[j].key = "key-b" /\ limited[j].code = 200
    /\ limited[j].at = limited[i].at
    /\ limited[l].key = "key-a" /\ limited[l].code = 200
    /\ limited[l].at > limited[i].at + WindowMs

\* The calls made for transaction tx among the calls q, and their operations.
CallsOf(q, tx) == SelectSeq(q, LAMBDA c : c.tx = tx)
OpsOf(q, tx) == {q[k].op : k \in {j \in DOMAIN q : q[j].tx = tx}}
\* How often operation op was invoked for transaction tx.
Invocations(q, tx, op) == Cardinality({k \in DOMAIN q : q[k].tx = tx /\ q[k].op = op})
TipPaths == {"getTipInstructions", "buildGatewayTransaction"}

\* C21: no transaction of the runner or of /build-unsigned-tx has both
\* getTipInstructions and buildGatewayTransaction invoked for it.
C21_SingleTipPath ==
  /\ \A tx \in 1..(tr.N) : Cardinality(OpsOf(trace, tx) \cap TipPaths) <= 1
  /\ Cardinality(OpsOf(handlerLog.calls, handled) \cap TipPaths) <= 1

\* A runner transaction was optimized and submitted, and /build-unsigned-tx
\* has had a transaction optimized.
C21_Witness ==
  /\ \E tx \in 1..(tr.N) :
       /\ "buildGatewayTransaction" \in OpsOf(trace, tx)
       /\ "sendTransaction" \in OpsOf(trace, tx)
  /\ handlerLog.op = "build-unsigned-tx"
  /\ \E k \in DOMAIN handlerLog.calls :
       handlerLog.calls[k].op = "buildGatewayTransaction" /\ handlerLog.calls[k].out = "ok"

\* C22: once setup has succeeded, a store write that raises (recording an
\* attempt, writing the final summary) neither counts as a failed attempt nor
\* fails the run: the counters stay those of the iterations gone through and the
\* runner never enters the outer catch.
C22_PersistenceFailureTolerated ==
  \A r \in RunIds :
    LET rn == runner[r] IN
    rn.workingConnection =>
      /\ rn.successCount + rn.failedCount
           <= rn.i + (IF rn.pc \in {"record", "delay", "recordCatch"} THEN 1 ELSE 0)
      /\ rn.pc # "fatal"
      /\ r \in Created => runs[r].status # "failed"

\* C23: before any call of iteration i + 1 is made the fixed delay has elapsed
\* after iteration i, however iteration i ended.
C23_DelayUnconditional ==
  \A k \in DOMAIN trace :
    trace[k].tx >= 2 =>
      \E j \in 1..(k - 1) : trace[j].tx = trace[k].tx - 1 /\ trace[j].op = "delay"

\* The steps of one attempt, in their order.
AttemptSteps == <<"getLatestBlockhash", "buildGatewayTransaction", "sign", "sendTransaction">>
StepRank(op) == CHOOSE k \in DOMAIN AttemptSteps : AttemptSteps[k] = op
IsStep(c) == \E k \in DOMAIN AttemptSteps : AttemptSteps[k] = c.op
\* Some call op of transaction tx ended with outcome out.
Ended(q, tx, op, out) == \E k \in DOMAIN q : q[k].tx = tx /\ q[k].op = op /\ q[k].out = out

\* C24, as stated: every iteration gone through has invoked optimize exactly
\* once and submit at most once.
C24_OptimizeExactlyOnce ==
  \A tx \in 1..(tr.i) :
    /\ Invocations(trace, tx, "buildGatewayTransaction") = 1
    /\ Invocations(trace, tx, "sendTransaction") <= 1

\* C24, amended: an iteration makes each of its steps at most once, in the
\* order build, optimize, sign, submit; optimize is invoked exactly once when
\* the build step (the blockhash fetch) succeeded and not at all when it raised;
\* submit is invoked only after optimize returned and the transaction was
\* signed; and a call of the Gateway client makes at most one HTTP exchange.
C24_NoRetry ==
  \A tx \in 1..(tr.N) :
    LET q == CallsOf(trace, tx) IN
    /\ \A j, k \in DOMAIN q :
         (j < k /\ IsStep(q[j]) /\ IsStep(q[k])) => StepRank(q[j].op) < StepRank(q[k].op)
    /\ tx <= tr.i =>
         (Invocations(trace, tx, "buildGatewayTransaction")
            = IF Ended(trace, tx, "getLatestBlockhash", "ok") THEN 1 ELSE 0)
    /\ Invocations(trace, tx, "sendTransaction") = 1 =>
         /\ Ended(trace, tx, "buildGatewayTransaction", "ok")
         /\ Ended(trace, tx, "sign", "ok")
    /\ Invocations(trace, tx, "fetch")
         <= Invocations(trace, tx, "buildGatewayTransaction")
              + Invocations(trace, tx, "sendTransaction")

\* In live mode one iteration was optimized, signed and submitted with one
\* exchange per call, and another one ended when optimize raised.
C24_Witness ==
  /\ ~useMockData /\ tr.i = 2
  /\ \E a, b \in 1..2 :
       /\ Ended(trace, a, "sendTransaction", "success")
       /\ Invocations(trace, a, "fetch") = 2
       /\ Ended(trace, b, "buildGatewayTransaction", "raise")
       /\ Invocations(trace, b, "sendTransaction") = 0
       /\ Invocations(trace, b, "fetch") = 1

\* The probes made, in order, and the calls of the iterations.
Probes == SelectSeq(trace, LAMBDA c : c.op = "probe")
IterationCalls == SelectSeq(trace, LAMBDA c : c.tx >= 1)

\* C25: the k-th probe goes to endpoint k of RPC_ENDPOINTS and is made only
\* after the ones before it raised; the first endpoint that answers is the one
\* every iteration uses, and no probe follows a call of an iteration; when all
\* have raised the run fails and no iteration is executed.
C25_EndpointProbedOnce ==
  /\ Len(Probes) <= NumRpcEndpoints
  /\ \A k \in DOMAIN Probes :
       /\ Probes[k].arg = k
       /\ k < Len(Probes) => Probes[k].out = "raise"
  /\ \A k \in DOMAIN trace :
       trace[k].tx >= 1 =>
         /\ Len(Probes) > 0 /\ Probes[Len(Probes)].out = "ok"
         /\ endpoint = Len(Probes)
         /\ trace[k].op = "getLatestBlockhash" => trace[k].arg = endpoint
         /\ \A j \in k..Len(trace) : trace[j].op # "probe"
  /\ (tr.pc \in {"fatal", "done", "rejected"} /\ ~tr.workingConnection) =>
       /\ Len(Probes) = NumRpcEndpoints
       /\ \A k \in DOMAIN Probes : Probes[k].out = "raise"
       /\ IterationCalls = <<>>
       /\ tr.pc = "done" => trace[Len(trace)].arg = "failed"

\* The first endpoint did not answer, the second did, and two iterations have
\* fetched their blockhash from it.
C25_Witness ==
  /\ Len(Probes) = 2 /\ Probes[1].out = "raise" /\ Probes[2].out = "ok"
  /\ Invocations(trace, 1, "getLatestBlockhash") = 1
  /\ Invocations(trace, 2, "getLatestBlockhash") = 1
  /\ \A k \in DOMAIN trace : trace[k].op = "getLatestBlockhash" => trace[k].arg = 2

\* C26: two rows of the alerts table for the same rule key are never created
\* less than the cooldown apart, also when invocations of checkAlertRules
\* overlap.
C26_AlertsCreatedCooldownApart ==
  \A i, j \in DOMAIN alerts :
    (i < j /\ alerts[i].key = alerts[j].key) =>
      \/ alerts[j].createdAt - alerts[i].createdAt >= AlertCooldown
      \/ alerts[i].createdAt - alerts[j].createdAt >= AlertCooldown

\* In the calls q, every store write of an attempt with status success follows
\* a sendTransaction of the same transaction that returned status success with
\* a signature, and every store write that follows a sendTransaction that
\* raised or returned anything else has status failed.
StatusFollowsSubmit(q) ==
  \A k \in DOMAIN q :
    q[k].op = "createBenchmarkTransaction" =>
      /\ q[k].arg = "success" =>
           \E j \in 1..(k - 1) :
             q[j].tx = q[k].tx /\ q[j].op = "sendTransaction" /\ q[j].out = "success"
      /\ \A j \in 1..(k - 1) :
           (q[j].tx = q[k].tx /\ q[j].op = "sendTransaction" /\ q[j].out # "success")
             => q[k].arg = "failed"

\* C28: an attempt is stored with status success only if sendTransaction
\* returned status success with a signature; when it raised or returned any
\* other status the attempt is stored with status failed -- in the runner loop
\* and in /submit-signed-tx alike.
C28_SuccessOnlyAfterSuccess ==
  /\ StatusFollowsSubmit(trace)
  /\ StatusFollowsSubmit(handlerLog.calls)

\* C29: in every reachable state of the store at most one route configuration
\* has isActive = true.
C29_AtMostOneActive == Cardinality(ActiveConfigs(configs)) <= 1

\* C30: at most one interval timer is armed, one is armed exactly when
\* isActive() is true, and no step adds a configuration written by AutoPilot
\* to the store while isActive() is false.
C30_TimerAndWritesFollowIsActive ==
  /\ [](armed <= 1 /\ ((armed = 1) <=> isEnabled))
  /\ [][(Len(configs') > Len(configs) /\ configs'[Len(configs')].name = "Auto-Optimized")
          => isEnabled]_vars

====
